---------------------------- MODULE Spec2Model ----------------------------
(***************************************************************************)
(* A model of the health-data synchronisation engine: the sliding-window   *)
(* rate limiter and the retry wrapper (utils.py), the two-tier cache and   *)
(* the aggregator (advanced_utils.py) and the sync cycle (main.py).        *)
(*                                                                         *)
(* Each component has its own specification (SpecRL, SpecRetry, SpecCache, *)
(* SpecSync); a specification leaves the variables of the other components *)
(* at their initial values.                                                *)
(***************************************************************************)
EXTENDS Integers, Sequences, FiniteSets, TLC

VARIABLES
    \* ---- RateLimiter (utils.py) ----
    clock,          \* wall clock seen by datetime.now(), in ticks
    calls_per_minute, \* RateLimiter.calls_per_minute
    calls,          \* RateLimiter.calls: the recorded timestamps (ticks)
    issued,         \* the instants at which the wrapped function was invoked
    waited,         \* the sleep (seconds) of each acquisition, 0 if none
    \* ---- retry_on_exception (utils.py) ----
    retries,        \* the decorator's retries argument
    delay,          \* the decorator's delay argument (seconds)
    attempt,        \* the loop variable of the wrapper
    last_exception, \* the wrapper's last_exception
    invocations,    \* the outcome of each invocation of the wrapped function
    sleeps,         \* the argument of each time.sleep call, in order
    warnings,       \* the number of logging.warning calls (retry attempts)
    outcome,        \* how the wrapper ended, and with what
    \* ---- CacheManager (advanced_utils.py) ----
    redis_client,   \* whether a remote tier is configured (redis_url given)
    redis_store,    \* the remote tier: key -> entry with its expiry
    local_cache,    \* CacheManager.local_cache: key -> value
    cache_clock,    \* the time, in seconds
    cache_last,     \* the last cache call and how it ended
    cache_written,  \* the last cache_data call
    cache_calls,    \* the number of cache calls made
    \* ---- HealthSync (main.py) ----
    last_sync_status, \* HealthSync.last_sync_status
    latest_metrics, \* HealthSync.latest_metrics: the families it holds
    active_alerts,  \* HealthSync.active_alerts
    google_home,    \* whether self.google_home exists (ENABLE_GOOGLE_HOME)
    bot,            \* whether self.bot exists (ENABLE_TELEGRAM)
    today,          \* datetime.now().date()
    cycle,          \* the running call of sync_health_data, if any
    fetched,        \* per source, how _safe_sync went in this attempt
    series,         \* per source, what _safe_sync returned in this attempt
    health_summary, \* the families of the summary built in this attempt
    derived,        \* the alert list derived in this attempt
    notified,       \* the notifications handed to the channels
    published,      \* the readings handed to calendar.create_health_event
    sync_sleeps,    \* the backoff sleeps of sync_health_data's wrapper
    cycles,         \* the number of calls of sync_health_data
    job_due,        \* the scheduled job is due and run_pending has not run it
    sync_warnings,  \* the sources _check_sync_health warned of in this call
    \* ---- DataAnalyzer, HealthMetricsAggregator, NotificationManager ----
    series_in,      \* the four series handed to the analysis
    analysis,       \* the last analysis call and its result
    \* ---- HealthSync.generate_health_summary (main.py) ----
    cached_summary, \* HealthSync.cached_summary
    summary_call,   \* the last call of generate_health_summary
    summary_calls,  \* the number of calls of generate_health_summary
    \* ---- the handlers' limiters (withings_handler.py, omron_handler.py) ----
    limiter_calls,  \* per RateLimiter object, its list self.calls
    lim_clock,      \* datetime.now(), in ticks
    lim_last,       \* the last rate-limited call: its source and its wait
    source_calls,   \* per source, the number of its rate-limited calls
    \* ---- a source's fetch inside _safe_sync (the handlers) ----
    fetch_pc,       \* where the thread is inside the cycle's _safe_sync calls
    fetch_log,      \* the acquisitions, requests and sleeps of this _safe_sync
    \* ---- threads inside one limiter's wrapper (utils.py:13-26) ----
    threads         \* per thread, where it is in the wrapper and its locals

rlVars == <<clock, calls_per_minute, calls, issued, waited>>

retryVars == <<retries, delay, attempt, last_exception, invocations, sleeps,
               warnings, outcome>>

cacheVars == <<redis_client, redis_store, local_cache, cache_clock,
               cache_last, cache_written, cache_calls>>

syncVars == <<last_sync_status, latest_metrics, active_alerts, google_home,
              bot, today, cycle, fetched, series, health_summary, derived, notified,
              published, sync_sleeps, cycles, job_due,
              sync_warnings>>

anVars == <<series_in, analysis>>

sumVars == <<cached_summary, summary_call, summary_calls>>

limVars == <<limiter_calls, lim_clock, lim_last, source_calls>>

fetchVars == <<fetch_pc, fetch_log>>

threadVars == <<threads>>

vars == <<rlVars, retryVars, cacheVars, syncVars, anVars, sumVars, limVars,
          fetchVars, threadVars>>

-----------------------------------------------------------------------------
(* Helpers on sequences.                                                   *)

Last(s) == s[Len(s)]

RECURSIVE Pow2(_)
Pow2(n) == IF n = 0 THEN 1 ELSE 2 * Pow2(n - 1)

RECURSIVE Sum(_)
Sum(s) == IF s = <<>> THEN 0 ELSE s[1] + Sum(Tail(s))

SumSquares(s) == Sum([i \in 1..Len(s) |-> s[i] * s[i]])

SeqMax(s) == CHOOSE m \in {s[i] : i \in 1..Len(s)} : \A i \in 1..Len(s) : s[i] <= m

SeqMin(s) == CHOOSE m \in {s[i] : i \in 1..Len(s)} : \A i \in 1..Len(s) : m <= s[i]

Abs(x) == IF x < 0 THEN 0 - x ELSE x

Max2(a, b) == IF a >= b THEN a ELSE b

\* list[:n] and list[-n:] of Python.
Head3(s, n) == SubSeq(s, 1, IF Len(s) < n THEN Len(s) ELSE n)

Tail3(s, n) == SubSeq(s, IF Len(s) < n THEN 1 ELSE Len(s) - n + 1, Len(s))

-----------------------------------------------------------------------------
(***************************************************************************)
(* RateLimiter, utils.py:6-27.                                             *)
(*                                                                         *)
(* Time is counted in ticks, TicksPerSecond of them to a second, so that   *)
(* timedelta.seconds (which drops the sub-second part) is not the          *)
(* identity.                                                               *)
(***************************************************************************)

TicksPerSecond == 2

WindowSeconds == 60

MaxTicks == 2

MaxCalls == 5

MaxLimit == 2

Window == WindowSeconds * TicksPerSecond

\* The instants at which calls arrive unless a sleep delays them: within
\* MaxTicks ticks of a multiple of half a window.
Instants ==
    {h * (Window \div 2) + o : h \in 0..2, o \in (0 - MaxTicks)..MaxTicks}

SecondsPerDay == 86400

\* timedelta.seconds of a difference of less than a day: a timedelta is
\* normalised to days, 0 <= seconds < 86400 and microseconds, so that of a
\* negative difference is counted from a day below.
TimedeltaSeconds(d) ==
    (d % (SecondsPerDay * TicksPerSecond)) \div TicksPerSecond

\* utils.py:16-17: the timestamps younger than one minute.
Prune(cs, now) == SelectSeq(cs, LAMBDA t : now - t < Window)

\* A wrapper that never sleeps.
SleepTimeNone(cs, now, limit) == 0

\* utils.py:19-23: the seconds the acquisition sleeps (0: no sleep).
SleepTime(cs, now, limit) ==
    IF Len(cs) >= limit
    THEN LET sleep_time == WindowSeconds - TimedeltaSeconds(now - cs[1])
         IN  IF sleep_time > 0 THEN sleep_time ELSE 0
    ELSE 0

\* utils.py:25: the timestamp recorded for the call.
Recorded(now, afterSleep) == now

\* A limiter that nothing has called (RateLimiter.__init__, utils.py:7-9).
FreshRL ==
    /\ clock = 0
    /\ calls = <<>>
    /\ issued = <<>>
    /\ waited = <<>>

IdleRL == FreshRL /\ calls_per_minute = 1

\* One call of the rate-limited function: wrapper(), utils.py:13-26.
Acquire ==
    /\ Len(issued) < MaxCalls
    /\ LET now == clock
           kept == Prune(calls, now)
           sleep_time == SleepTime(kept, now, calls_per_minute)
           after == now + sleep_time * TicksPerSecond
       IN  /\ clock' = after
           /\ calls' = Append(kept, Recorded(now, after))
           /\ issued' = Append(issued, after)
           /\ waited' = Append(waited, sleep_time)
    /\ UNCHANGED <<calls_per_minute, retryVars, cacheVars, syncVars, anVars, sumVars,
                   limVars, fetchVars, threadVars>>

\* Time passes between two calls.
Tick ==
    /\ \E t \in Instants :
          /\ t > clock
          /\ clock' = t
    /\ UNCHANGED <<calls_per_minute, calls, issued, waited, retryVars, cacheVars,
                   syncVars, anVars, sumVars, limVars, fetchVars,
                   threadVars>>

-----------------------------------------------------------------------------
(***************************************************************************)
(* retry_on_exception, utils.py:29-50.                                     *)
(*                                                                         *)
(* The wrapped function is an input: each invocation either returns a      *)
(* value or raises an exception.                                           *)
(***************************************************************************)

MaxRetries == 4

MaxDelay == 2

Values == {"v1", "v2"}

Exceptions == {"E1", "E2"}

NoException == "None"

\* What `raise last_exception` raises: raising None is a TypeError.
RaiseOf(e) == IF e = NoException THEN "TypeError" ELSE e

\* A wrapper that gives up the backoff one attempt too early.
BacksOffOneShort(a, n) == a < n - 2

\* utils.py:39: whether a failed attempt is followed by a backoff sleep.
BacksOff(a, n) == a < n - 1

\* A backoff that grows linearly instead of doubling.
BackoffLinear(d, a) == d * (a + 1)

\* utils.py:40: the backoff after failed attempt a.
Backoff(d, a) == d * Pow2(a)

IdleRetry ==
    /\ retries = 0
    /\ delay = 1
    /\ attempt = 0
    /\ last_exception = NoException
    /\ invocations = <<>>
    /\ sleeps = <<>>
    /\ warnings = 0
    /\ outcome = [kind |-> "running", what |-> NoException]

InitRetry ==
    /\ retries \in 0..MaxRetries
    /\ delay \in 1..MaxDelay
    /\ attempt = 0
    /\ last_exception = NoException
    /\ invocations = <<>>
    /\ sleeps = <<>>
    /\ warnings = 0
    /\ outcome = [kind |-> "running", what |-> NoException]

\* utils.py:34-36: an iteration whose invocation returns v.
AttemptReturns ==
    /\ outcome.kind = "running"
    /\ attempt < retries
    /\ \E v \in Values :
          /\ invocations' = Append(invocations, [ok |-> TRUE, what |-> v])
          /\ outcome' = [kind |-> "returned", what |-> v]
    /\ UNCHANGED <<retries, delay, attempt, last_exception, sleeps, warnings>>
    /\ UNCHANGED <<rlVars, cacheVars, syncVars, anVars, sumVars, limVars, fetchVars,
                   threadVars>>

\* utils.py:34-45: an iteration whose invocation raises e.
AttemptRaises ==
    /\ outcome.kind = "running"
    /\ attempt < retries
    /\ \E e \in Exceptions :
          /\ invocations' = Append(invocations, [ok |-> FALSE, what |-> e])
          /\ last_exception' = e
    /\ IF BacksOff(attempt, retries)
       THEN /\ warnings' = warnings + 1
            /\ sleeps' = Append(sleeps, Backoff(delay, attempt))
       ELSE UNCHANGED <<warnings, sleeps>>
    /\ attempt' = attempt + 1
    /\ UNCHANGED <<retries, delay, outcome>>
    /\ UNCHANGED <<rlVars, cacheVars, syncVars, anVars, sumVars, limVars, fetchVars,
                   threadVars>>

\* utils.py:47-48: the loop is over, the wrapper raises last_exception.
Exhausted ==
    /\ outcome.kind = "running"
    /\ attempt >= retries
    /\ outcome' = [kind |-> "raised", what |-> RaiseOf(last_exception)]
    /\ UNCHANGED <<retries, delay, attempt, last_exception, invocations,
                   sleeps, warnings>>
    /\ UNCHANGED <<rlVars, cacheVars, syncVars, anVars, sumVars, limVars, fetchVars,
                   threadVars>>

-----------------------------------------------------------------------------
(***************************************************************************)
(* CacheManager, advanced_utils.py:75-112.                                 *)
(*                                                                         *)
(* A descriptor is a Python dict: a sequence of <<field, value>> pairs in  *)
(* insertion order.  A cached value is a list of readings; a reading       *)
(* carries a timestamp that is either a datetime object (what the source   *)
(* handlers produce, HealthMetric.to_dict) or a plain string.              *)
(***************************************************************************)

DefaultTtl == 3600

MaxSkew == 1

MaxCacheCalls == 3

SourceIds == {"withings_weight", "withings_sleep", "omron_bp", "omron_hr"}

MaxDays == 2

Dates == 1..MaxDays

\* Optional values: Python's None, or a value.
None == [some |-> FALSE, val |-> <<>>]

Some(v) == [some |-> TRUE, val |-> v]

\* Python truthiness of an Optional[list]: None and [] are falsy.
Truthy(o) == o.some /\ o.val # <<>>

\* main.py:138: the descriptor of a source's data for a date; the same
\* fields inserted in the other order are the same dict.
Descriptor(f, d) == << <<"function", f>>, <<"date", d>> >>

DescriptorReversed(f, d) == << <<"date", d>>, <<"function", f>> >>

\* json.dumps(data) without sort_keys: the pairs in insertion order.
GenerateKeyUnsorted(desc) == desc

\* json.dumps(data, sort_keys=True) followed by md5: the key is the set of
\* the descriptor's pairs (the digest is taken to be injective).
GenerateKey(desc) == {desc[i] : i \in 1..Len(desc)}

\* The descriptors of _safe_sync, with their fields in either order.
AllDescriptors ==
    {Descriptor(f, d) : f \in SourceIds, d \in Dates}
    \cup {DescriptorReversed(f, d) : f \in SourceIds, d \in Dates}

CacheKeys == {GenerateKey(desc) : desc \in AllDescriptors}

\* A timestamp: a datetime object, or its text.
Datetime(t) == [kind |-> "datetime", at |-> t]

IsoString(t) == [kind |-> "str", at |-> t]

\* json.dumps raises TypeError on a datetime object.
JsonSerializable(v) == \A i \in 1..Len(v) : v[i].timestamp.kind # "datetime"

\* json.dumps of a list of readings: the text, one JSON object per reading.
JsonDumps(v) == [i \in 1..Len(v) |-> [object |-> v[i]]]

\* json.loads of such a text.
JsonLoads(text) == [i \in 1..Len(text) |-> text[i].object]

NoEntry == [present |-> FALSE, text |-> <<>>, expires |-> 0]

\* redis GET: the entry's text unless the key is absent or has expired.
RedisGet(store, key, now) ==
    IF store[key].present /\ now < store[key].expires
    THEN [found |-> TRUE, text |-> store[key].text]
    ELSE [found |-> FALSE, text |-> <<>>]

\* advanced_utils.py:95-96: the fallback to the local tier.
LocalGet(lc, key, now) == lc[key]

\* get_cached_data, advanced_utils.py:85-96.
GetCachedData(rc, store, lc, desc, now) ==
    LET cache_key == GenerateKey(desc)
        cached == RedisGet(store, cache_key, now)
    IN  IF rc /\ cached.found
        THEN Some(JsonLoads(cached.text))
        ELSE LocalGet(lc, cache_key, now)

\* advanced_utils.py:104-109: the write to the remote tier.  It raises when
\* the value does not serialise or when the remote tier fails.
RemoteWrite(store, key, value, ttl, now, fault) ==
    IF ~JsonSerializable(value)
    THEN [raised |-> "TypeError", store |-> store]
    ELSE IF fault
    THEN [raised |-> "ConnectionError", store |-> store]
    ELSE [raised |-> "None",
          store |-> [store EXCEPT ![key] =
                        [present |-> TRUE, text |-> JsonDumps(value),
                         expires |-> now + ttl]]]

\* cache_data, advanced_utils.py:98-112: the exception it raises ("None" if
\* it returns) and the two tiers after it.
CacheData(rc, store, lc, desc, value, ttl, now, fault) ==
    LET cache_key == GenerateKey(desc)
        remote == IF rc THEN RemoteWrite(store, cache_key, value, ttl, now, fault)
                        ELSE [raised |-> "None", store |-> store]
    IN  IF remote.raised # "None"
        THEN [raised |-> remote.raised, store |-> store, local |-> lc]
        ELSE [raised |-> "None", store |-> remote.store,
              local |-> [lc EXCEPT ![cache_key] = Some(value)]]

\* The values and descriptors the cache is exercised with.
CacheValues ==
    { <<>>,
      <<[type |-> "weight", value |-> 70, timestamp |-> IsoString(1)]>>,
      <<[type |-> "weight", value |-> 70, timestamp |-> Datetime(1)]>> }

CacheDescriptors ==
    {Descriptor(f, 1) : f \in {"withings_weight", "omron_bp"}}
    \cup {DescriptorReversed("omron_bp", 1)}

CacheTtls == {1, DefaultTtl}

\* The instants of the cache calls: within MaxSkew seconds of the start
\* and of the default expiry.
CacheInstants ==
    (0..MaxSkew) \cup ((DefaultTtl - MaxSkew)..(DefaultTtl + MaxSkew))

NoCall == [op |-> "none", desc |-> <<>>, value |-> <<>>, ttl |-> 0,
           fault |-> FALSE, raised |-> "None", ret |-> None, at |-> 0]

NoWrite == [written |-> FALSE, key |-> {}, value |-> <<>>, ttl |-> 0,
            at |-> 0, fault |-> FALSE, raised |-> "None"]

\* CacheManager.__init__, advanced_utils.py:76-78.
EmptyCache ==
    /\ redis_store = [k \in CacheKeys |-> NoEntry]
    /\ local_cache = [k \in CacheKeys |-> None]
    /\ cache_clock = 0
    /\ cache_last = NoCall
    /\ cache_written = NoWrite
    /\ cache_calls = 0

IdleCache == EmptyCache /\ redis_client = FALSE

\* A call of cache_data; with a remote tier, the remote write may fail.
CacheDataCall ==
    /\ cache_calls < MaxCacheCalls
    /\ cache_calls' = cache_calls + 1
    /\ \E desc \in CacheDescriptors, value \in CacheValues, ttl \in CacheTtls,
          fault \in {FALSE, redis_client} :
          LET r == CacheData(redis_client, redis_store, local_cache, desc,
                             value, ttl, cache_clock, fault)
          IN  /\ redis_store' = r.store
              /\ local_cache' = r.local
              /\ cache_last' = [op |-> "cache_data", desc |-> desc,
                                value |-> value, ttl |-> ttl, fault |-> fault,
                                raised |-> r.raised, ret |-> None,
                                at |-> cache_clock]
              /\ cache_written' =
                    [written |-> TRUE, key |-> GenerateKey(desc),
                     value |-> value, ttl |-> ttl, at |-> cache_clock,
                     fault |-> fault, raised |-> r.raised]
    /\ UNCHANGED <<redis_client, cache_clock>>
    /\ UNCHANGED <<rlVars, retryVars, syncVars, anVars, sumVars, limVars, fetchVars,
                   threadVars>>

\* A call of get_cached_data.
GetCachedDataCall ==
    /\ cache_calls < MaxCacheCalls
    /\ cache_calls' = cache_calls + 1
    /\ \E desc \in CacheDescriptors :
          cache_last' = [op |-> "get_cached_data", desc |-> desc,
                         value |-> <<>>, ttl |-> 0, fault |-> FALSE,
                         raised |-> "None",
                         ret |-> GetCachedData(redis_client, redis_store,
                                               local_cache, desc, cache_clock),
                         at |-> cache_clock]
    /\ UNCHANGED <<redis_client, redis_store, local_cache, cache_clock,
                   cache_written>>
    /\ UNCHANGED <<rlVars, retryVars, syncVars, anVars, sumVars, limVars, fetchVars,
                   threadVars>>

\* Time passes.
CacheTick ==
    /\ \E t \in CacheInstants :
          /\ t > cache_clock
          /\ cache_clock' = t
    /\ UNCHANGED <<redis_client, redis_store, local_cache, cache_last,
                   cache_written, cache_calls>>
    /\ UNCHANGED <<rlVars, retryVars, syncVars, anVars, sumVars, limVars, fetchVars,
                   threadVars>>

-----------------------------------------------------------------------------
(***************************************************************************)
(* The readings (HealthMetric.to_dict, utils.py:60-67) and their analysis  *)
(* (advanced_utils.py:19-73, 114-202).                                     *)
(*                                                                         *)
(* Values are integers; a quantity that the code holds as a float is kept  *)
(* as an exact fraction [num, den] or compared by cross-multiplication.    *)
(***************************************************************************)

\* 100 bpm, 20, 6 h, 2 h, 10 and 5 mmHg: the thresholds of the rule table.
HrMaxLimit == 100

HrVariabilityLimit == 20

SleepMinHours == 6

SleepConsistencyLimit == 2

BpConcerning == 10

BpNotable == 5

TrendWindow == 3

MinutesPerHour == 60

WeightReading(v, t) ==
    [type |-> "weight", value |-> v, timestamp |-> Datetime(t)]

BpReading(sys, dia, t) ==
    [type |-> "blood_pressure",
     value |-> [systolic |-> sys, diastolic |-> dia],
     timestamp |-> Datetime(t)]

HrReading(v, t) ==
    [type |-> "heart_rate", value |-> v, timestamp |-> Datetime(t)]

\* start and end in minutes.
SleepReading(state, start, end) ==
    [type |-> "sleep", value |-> state, timestamp |-> Datetime(start),
     start |-> start, end |-> end]

\* df.sort_values('timestamp'): insertion of each row after the rows that
\* are not later than it.
RECURSIVE SortByTimestamp(_)
SortByTimestamp(s) ==
    IF s = <<>> THEN <<>>
    ELSE LET rest == SortByTimestamp(SubSeq(s, 1, Len(s) - 1))
             x == s[Len(s)]
             before == SelectSeq(rest, LAMBDA r : r.timestamp.at <= x.timestamp.at)
             after == SelectSeq(rest, LAMBDA r : r.timestamp.at > x.timestamp.at)
         IN  before \o <<x>> \o after

\* A raised exception, as the result of a call.
Raised(e) == [raised |-> e, trend |-> "none", num |-> 0, den |-> 1,
              analysis |-> <<>>]

Trend(t, n, d, a) == [raised |-> "None", trend |-> t, num |-> n, den |-> d,
                      analysis |-> a]

\* analyze_weight_trend, advanced_utils.py:23-24.  functools.lru_cache
\* hashes the call's arguments to build its key; weight_data is a list,
\* which is unhashable, so every call raises TypeError before the body
\* (lines 26-44) runs.
AnalyzeWeightTrend(weight_data) == Raised("TypeError")

\* round(10 * n / d), the value that the format .1f shows, in tenths.
Tenths(n, d) == (20 * n + d) \div (2 * d)

\* The fraction bits of a float64.
MantissaBits == 52

\* floor(log2(a / 3)): the binary exponent of the mean a / 3 of three
\* integers of sum a.
RECURSIVE ExponentOfThird(_)
ExponentOfThird(a) ==
    IF a >= 6 THEN 1 + ExponentOfThird(a \div 2)
    ELSE IF a >= 3 THEN 0
    ELSE IF a = 2 THEN 0 - 1
    ELSE 0 - 2

\* np.mean of k integers of sum a is the float64 nearest to a / k: exact for
\* k < 3, and for k = 3 off by a third of a unit in the last place, upwards
\* (1) or downwards (-1), unless 3 divides a (0).  With f fraction bits left
\* below the binary point, a remainder of 1/3 is rounded down when f is even
\* and up when f is odd, a remainder of 2/3 the other way round.
MeanError(a, k) ==
    LET f == MantissaBits - ExponentOfThird(a)
    IN  IF k # TrendWindow \/ a % 3 = 0 THEN 0
        ELSE IF (a % 3 = 1) = (f % 2 = 0) THEN 0 - 1
        ELSE 1

\* np.mean(xs) - np.mean(ys) > limit in float64, for k integers of sum a and
\* k integers of sum b (means of 8 and more, whose difference is formed
\* without a further rounding).  Off the boundary the exact difference
\* decides; on it the means' rounding errors, each in the unit of its own
\* binade, do.
FloatDiffAbove(a, b, k, limit) ==
    IF a - b # k * limit THEN a - b > k * limit
    ELSE LET ea == ExponentOfThird(a)
             eb == ExponentOfThird(b)
             m == IF ea < eb THEN ea ELSE eb
         IN  MeanError(a, k) * Pow2(ea - m) - MeanError(b, k) * Pow2(eb - m) > 0

\* abs(np.mean(xs) - np.mean(ys)) > limit.
FloatAbsDiffAbove(a, b, k, limit) ==
    FloatDiffAbove(a, b, k, limit) \/ FloatDiffAbove(b, a, k, limit)

\* analyze_blood_pressure_trend, advanced_utils.py:46-73.  The reported
\* change of a mean is kept as the difference of the window sums over the
\* window size.
AnalyzeBloodPressureTrend(bp_data) ==
    IF bp_data = <<>>
    THEN Trend("neutral", 0, 1, <<"Insufficient data">>)
    ELSE IF Len(bp_data) < 2
    THEN Trend("neutral", 0, 1, <<"Need more data points">>)
    ELSE LET df == SortByTimestamp(bp_data)
             systolic_data == [i \in 1..Len(df) |-> df[i].value.systolic]
             diastolic_data == [i \in 1..Len(df) |-> df[i].value.diastolic]
             k == Len(Head3(df, TrendWindow))
             sys_recent == Sum(Tail3(systolic_data, TrendWindow))
             sys_past == Sum(Head3(systolic_data, TrendWindow))
             dia_recent == Sum(Tail3(diastolic_data, TrendWindow))
             dia_past == Sum(Head3(diastolic_data, TrendWindow))
             sys_change == sys_recent - sys_past
             dia_change == dia_recent - dia_past
             trend == IF FloatAbsDiffAbove(sys_recent, sys_past, k, BpConcerning)
                         \/ FloatAbsDiffAbove(dia_recent, dia_past, k, BpConcerning)
                      THEN "concerning"
                      ELSE IF FloatAbsDiffAbove(sys_recent, sys_past, k, BpNotable)
                              \/ FloatAbsDiffAbove(dia_recent, dia_past, k, BpNotable)
                      THEN "notable"
                      ELSE "stable"
         IN  Trend(trend, Max2(Abs(sys_change), Abs(dia_change)), k,
                   <<"BP trend", Tenths(sys_change, k), Tenths(dia_change, k)>>)

NoFamily == [present |-> FALSE]

\* advanced_utils.py:146-154: variability is the population standard
\* deviation sqrt(var_num) / var_den of the values, 0 for a single value.
HeartRateSummary(hr_data) ==
    IF hr_data = <<>> THEN NoFamily
    ELSE LET hr_values == [i \in 1..Len(hr_data) |-> hr_data[i].value]
             n == Len(hr_values)
         IN  [present |-> TRUE,
              latest |-> Last(hr_data).value,
              var_num |-> IF n > 1
                          THEN n * SumSquares(hr_values)
                               - Sum(hr_values) * Sum(hr_values)
                          ELSE 0,
              var_den |-> n,
              min |-> SeqMin(hr_values),
              max |-> SeqMax(hr_values)]

\* advanced_utils.py:157-169: durations in minutes; their mean is
\* sum / n and their standard deviation sqrt(var_num) / var_den.
SleepSummary(sleep_data) ==
    IF sleep_data = <<>> THEN NoFamily
    ELSE LET sleep_durations ==
                 [i \in 1..Len(sleep_data) |-> sleep_data[i].end - sleep_data[i].start]
             n == Len(sleep_durations)
         IN  [present |-> TRUE,
              sum |-> Sum(sleep_durations),
              n |-> n,
              quality |-> Last(sleep_data).value,
              var_num |-> n * SumSquares(sleep_durations)
                          - Sum(sleep_durations) * Sum(sleep_durations),
              var_den |-> n]

SummaryRaised(e) == [raised |-> e, families |-> {}]

\* advanced_utils.py:131-171: the summary, once the weight trend is there.
\* The keys 'weight' and 'blood_pressure' are set whatever the series are.
BuildSummary(weight_trend, weight_data, bp_data, hr_data, sleep_data) ==
    LET bp_trend == AnalyzeBloodPressureTrend(bp_data)
        hr == HeartRateSummary(hr_data)
        sleep == SleepSummary(sleep_data)
    IN  [raised |-> "None",
         families |-> {"weight", "blood_pressure"}
                      \cup (IF hr.present THEN {"heart_rate"} ELSE {})
                      \cup (IF sleep.present THEN {"sleep"} ELSE {}),
         weight |-> [trend |-> weight_trend.trend,
                     analysis |-> weight_trend.analysis,
                     latest |-> IF weight_data # <<>>
                                THEN Some(<<Last(weight_data).value>>)
                                ELSE None],
         blood_pressure |-> [trend |-> bp_trend.trend,
                             analysis |-> bp_trend.analysis,
                             latest |-> IF bp_data # <<>>
                                        THEN Some(<<Last(bp_data).value>>)
                                        ELSE None],
         heart_rate |-> hr,
         sleep |-> sleep]

\* HealthMetricsAggregator.generate_health_summary, advanced_utils.py:118-171.
GenerateHealthSummary(weight_data, bp_data, hr_data, sleep_data) ==
    LET weight_trend == AnalyzeWeightTrend(weight_data)
    IN  IF weight_trend.raised # "None"
        THEN SummaryRaised(weight_trend.raised)
        ELSE BuildSummary(weight_trend, weight_data, bp_data, hr_data, sleep_data)

StdAtLeast(num, den, limit) == num >= limit * limit * den * den

\* sqrt(num) / den > limit, for num >= 0 and den > 0.
StdAbove(num, den, limit) == num > limit * limit * den * den

\* The value that the format .1f shows for sqrt(num) / den, in tenths: the
\* integer r with (r - 1/2)^2 <= 100 num / den^2 < (r + 1/2)^2.
StdTenths(num, den) ==
    CHOOSE r \in 0..(10 * num + 10) :
        /\ (2 * r - 1) * (2 * r - 1) * den * den <= 400 * num \/ r = 0
        /\ 400 * num < (2 * r + 1) * (2 * r + 1) * den * den

Alert(rule, severity, shown) ==
    [rule |-> rule, severity |-> severity, shown |-> shown]

\* NotificationManager.check_health_metrics, advanced_utils.py:177-202.
CheckHealthMetrics(summary) ==
    LET bp == summary.blood_pressure
        hr == summary.heart_rate
        sleep == summary.sleep
    IN  (IF "blood_pressure" \in summary.families /\ bp.trend = "concerning"
         THEN <<Alert("blood_pressure_trend", "warning", bp.analysis)>>
         ELSE <<>>)
        \o
        (IF hr.present
         THEN IF hr.max > HrMaxLimit
              THEN <<Alert("heart_rate_max", "warning", <<hr.max>>)>>
              ELSE IF StdAbove(hr.var_num, hr.var_den, HrVariabilityLimit)
              THEN <<Alert("heart_rate_variability", "info",
                           <<StdTenths(hr.var_num, hr.var_den)>>)>>
              ELSE <<>>
         ELSE <<>>)
        \o
        (IF sleep.present
         THEN (IF sleep.sum < SleepMinHours * MinutesPerHour * sleep.n
               THEN <<Alert("sleep_duration", "warning",
                            <<Tenths(sleep.sum, MinutesPerHour * sleep.n)>>)>>
               ELSE <<>>)
              \o
              (IF StdAbove(sleep.var_num, sleep.var_den,
                           SleepConsistencyLimit * MinutesPerHour)
               THEN <<Alert("sleep_consistency", "info", <<>>)>>
               ELSE <<>>)
         ELSE <<>>)

-----------------------------------------------------------------------------
(***************************************************************************)
(* The analysis functions applied to given series.                         *)
(***************************************************************************)

MaxSeries == 4

\* The sequences over S of length up to n.
SeqsUpTo(S, n) == UNION {[1..m -> S] : m \in 0..n}

\* Readings with the i-th value measured at times[i].
WeightSeriesOf(values, times) ==
    [i \in 1..Len(values) |-> WeightReading(values[i], times[i])]

BpSeriesOf(values, times) ==
    [i \in 1..Len(values) |->
        BpReading(values[i][1], values[i][2], times[i])]

HrSeriesOf(values) == [i \in 1..Len(values) |-> HrReading(values[i], i)]

\* Nights of the given durations, in minutes.
SleepSeriesOf(durations) ==
    [i \in 1..Len(durations) |-> SleepReading("deep", 0, durations[i])]

InOrder(values) == [i \in 1..Len(values) |-> i]

Reversed(values) == [i \in 1..Len(values) |-> Len(values) + 1 - i]

Times(values, backwards) ==
    IF backwards THEN Reversed(values) ELSE InOrder(values)

WeightValues == {70, 77}

BpValues == {<<120, 50>>, <<120, 57>>, <<120, 80>>}

WeightInputs ==
    {WeightSeriesOf(v, InOrder(v)) : v \in SeqsUpTo(WeightValues, MaxSeries)}
    \cup {WeightSeriesOf(v, Times(v, t)) :
             v \in {<<70, 70, 70, 77, 77, 77>>, <<70, 70, 70, 70, 71, 71>>},
             t \in BOOLEAN}

BpInputs ==
    {BpSeriesOf(v, InOrder(v)) : v \in SeqsUpTo(BpValues, MaxSeries)}
    \cup {BpSeriesOf(v, Times(v, t)) :
             v \in {<<<<120, 80>>, <<120, 80>>, <<120, 80>>,
                      <<140, 80>>, <<140, 80>>, <<140, 80>>>>,
                    <<<<120, 80>>, <<120, 80>>, <<120, 80>>,
                      <<126, 80>>, <<126, 80>>, <<126, 80>>>>},
             t \in BOOLEAN}

HrInputs ==
    {HrSeriesOf(v) : v \in {<<>>, <<80>>, <<105>>, <<60, 100>>, <<50, 100>>,
                            <<60, 105>>}}

SleepInputs ==
    {SleepSeriesOf(d) : d \in {<<>>, <<360>>, <<300>>, <<240, 480>>,
                               <<200, 480>>}}

NoSeries == [weight |-> <<>>, bp |-> <<>>, hr |-> <<>>, sleep |-> <<>>]

\* The series the analysis is applied to: every weight and every
\* blood-pressure series on its own, and the smaller ones combined.
AnalysisInputs ==
    {[NoSeries EXCEPT !.weight = w] : w \in WeightInputs}
    \cup {[NoSeries EXCEPT !.bp = b] : b \in BpInputs}
    \cup {[weight |-> w, bp |-> b, hr |-> h, sleep |-> s] :
             w \in {x \in WeightInputs : Len(x) < 2},
             b \in {x \in BpInputs : Len(x) = 6},
             h \in HrInputs, s \in SleepInputs}

NotAnalysed == [op |-> "none"]

IdleAnalysis == series_in = NoSeries /\ analysis = NotAnalysed

InitAnalysis == series_in \in AnalysisInputs /\ analysis = NotAnalysed

\* A call of DataAnalyzer.analyze_weight_trend.
AnalyzeWeightTrendCall ==
    /\ analysis' = [op |-> "analyze_weight_trend",
                    result |-> AnalyzeWeightTrend(series_in.weight)]
    /\ UNCHANGED series_in
    /\ UNCHANGED <<rlVars, retryVars, cacheVars, syncVars, sumVars, limVars, fetchVars,
                   threadVars>>

\* A call of DataAnalyzer.analyze_blood_pressure_trend.
AnalyzeBloodPressureTrendCall ==
    /\ analysis' = [op |-> "analyze_blood_pressure_trend",
                    result |-> AnalyzeBloodPressureTrend(series_in.bp)]
    /\ UNCHANGED series_in
    /\ UNCHANGED <<rlVars, retryVars, cacheVars, syncVars, sumVars, limVars, fetchVars,
                   threadVars>>

\* A call of HealthMetricsAggregator.generate_health_summary.
GenerateHealthSummaryCall ==
    /\ analysis' = [op |-> "generate_health_summary",
                    result |-> GenerateHealthSummary(series_in.weight,
                                   series_in.bp, series_in.hr, series_in.sleep)]
    /\ UNCHANGED series_in
    /\ UNCHANGED <<rlVars, retryVars, cacheVars, syncVars, sumVars, limVars, fetchVars,
                   threadVars>>

\* A call of NotificationManager.check_health_metrics, on the summary that
\* advanced_utils.py:131-171 builds of the series and a weight trend.
CheckHealthMetricsCall ==
    /\ LET summary_in ==
               BuildSummary(Trend("neutral", 0, 1, <<"Insufficient data">>),
                            series_in.weight, series_in.bp, series_in.hr,
                            series_in.sleep)
       IN  analysis' = [op |-> "check_health_metrics",
                        summary |-> summary_in,
                        result |-> CheckHealthMetrics(summary_in)]
    /\ UNCHANGED series_in
    /\ UNCHANGED <<rlVars, retryVars, cacheVars, syncVars, sumVars, limVars, fetchVars,
                   threadVars>>

-----------------------------------------------------------------------------
(***************************************************************************)
(* HealthSync, main.py:37-309: the sync cycle.                             *)
(*                                                                         *)
(* A source fetch (itself wrapped by retry_on_exception and RateLimiter in *)
(* the handlers) is an input here: it returns a series or, all its retries *)
(* having failed, raises.                                                  *)
(***************************************************************************)

\* main.py:163: @retry_on_exception(retries=3, delay=1).
SyncRetries == 3

SyncDelay == 1

\* main.py:301: schedule.every(1).minutes, in seconds.
SyncInterval == 60

MaxCycles == 2

\* The order of the _safe_sync calls, main.py:168-183.
SyncOrder == <<"withings_weight", "withings_sleep", "omron_bp", "omron_hr">>

\* What each source's fetch may return.
FetchResults ==
    [withings_weight |-> {<<>>, <<WeightReading(70, 1)>>},
     withings_sleep  |-> {<<SleepReading("deep", 0, 300)>>},
     omron_bp        |-> {<<BpReading(120, 80, 1)>>},
     omron_hr        |-> {<<HrReading(80, 1)>>, <<HrReading(105, 1)>>}]

FetchErrors == {"ConnectionError"}

NoStatus == [status |-> "None", error |-> "None"]

NotStarted == [kind |-> "idle", attempt |-> 0, step |-> 0, what |-> "None"]

NoSummary == [built |-> FALSE, families |-> {}]

NoAlerts == [derived |-> FALSE, alerts |-> <<>>]

\* HealthSync.__init__, main.py:58-69, with a cache that holds nothing.
InitSyncState ==
    /\ last_sync_status = [s \in SourceIds |-> NoStatus]
    /\ latest_metrics = {}
    /\ active_alerts = <<>>
    /\ today = 1
    /\ cycle = NotStarted
    /\ fetched = [s \in SourceIds |-> "none"]
    /\ series = [s \in SourceIds |-> <<>>]
    /\ health_summary = NoSummary
    /\ derived = NoAlerts
    /\ notified = <<>>
    /\ published = <<>>
    /\ sync_sleeps = <<>>
    /\ cycles = 0
    /\ job_due = FALSE
    /\ sync_warnings = {}

IdleSync == InitSyncState /\ google_home = FALSE /\ bot = FALSE

\* _safe_sync with a cache hit that clears the source's status.
SafeSyncClearing(statuses, store, local, data_type, fetch, fault) ==
    LET cache_key == Descriptor(data_type, today)
        cached_data == GetCachedData(redis_client, store, local, cache_key,
                                     cache_clock)
        written == CacheData(redis_client, store, local, cache_key,
                             fetch.data, DefaultTtl, cache_clock, fault)
        unchanged == [store |-> store, local |-> local]
    IN  IF Truthy(cached_data)
        THEN unchanged @@ [how |-> "hit", ret |-> cached_data.val,
                           status |-> NoStatus]
        ELSE IF fetch.raised # "None"
        THEN unchanged @@ [how |-> "failed", ret |-> <<>>,
                           status |-> [status |-> "error", error |-> fetch.raised]]
        ELSE IF written.raised # "None"
        THEN unchanged @@ [how |-> "fetched", ret |-> <<>>,
                           status |-> [status |-> "error", error |-> written.raised]]
        ELSE [store |-> written.store, local |-> written.local,
              how |-> "fetched", ret |-> fetch.data,
              status |-> [status |-> "success", error |-> "None"]]

\* _safe_sync, main.py:134-161, on given statuses and cache tiers: what it
\* returns, the source's status after it and the cache after it.  fetch is
\* the outcome of sync_func().
SafeSyncOn(statuses, store, local, data_type, fetch, fault) ==
    LET cache_key == Descriptor(data_type, today)
        cached_data == GetCachedData(redis_client, store, local, cache_key,
                                     cache_clock)
        written == CacheData(redis_client, store, local, cache_key,
                             fetch.data, DefaultTtl, cache_clock, fault)
        unchanged == [store |-> store, local |-> local]
    IN  IF Truthy(cached_data)
        THEN unchanged @@ [how |-> "hit", ret |-> cached_data.val,
                           status |-> statuses[data_type]]
        ELSE IF fetch.raised # "None"
        THEN unchanged @@ [how |-> "failed", ret |-> <<>>,
                           status |-> [status |-> "error", error |-> fetch.raised]]
        ELSE IF written.raised # "None"
        THEN unchanged @@ [how |-> "fetched", ret |-> <<>>,
                           status |-> [status |-> "error", error |-> written.raised]]
        ELSE [store |-> written.store, local |-> written.local,
              how |-> "fetched", ret |-> fetch.data,
              status |-> [status |-> "success", error |-> "None"]]

\* _safe_sync on the state of the HealthSync object.
SafeSync(data_type, fetch, fault) ==
    SafeSyncOn(last_sync_status, redis_store, local_cache, data_type, fetch,
               fault)

\* main.py:186-193: the families latest_metrics holds after the update.
UpdateLatest(lm, data) ==
    lm \cup (IF data["withings_weight"] # <<>> THEN {"weight"} ELSE {})
       \cup (IF data["omron_bp"] # <<>> THEN {"blood_pressure"} ELSE {})
       \cup (IF data["omron_hr"] # <<>> THEN {"heart_rate"} ELSE {})
       \cup (IF data["withings_sleep"] # <<>> THEN {"sleep"} ELSE {})

\* _parse_alert, main.py:250-265: the type found in the alert's text.
ParseAlertType(alert) ==
    CASE alert.rule = "blood_pressure_trend" -> "blood_pressure"
      [] alert.rule \in {"heart_rate_max", "heart_rate_variability"} -> "heart_rate"
      [] alert.rule \in {"sleep_duration", "sleep_consistency"} -> "sleep"
      [] OTHER -> "health"

\* _send_alert_notifications, main.py:231-248: the deliveries made and the
\* exception raised.  GoogleHomeHandler.send_notification catches its own
\* failures; asyncio.create_task raises RuntimeError when, as in the thread
\* that runs sync_health_data, no event loop is running.
SendAlertNotifications(alerts) ==
    IF alerts = <<>>
    THEN [raised |-> "None", sent |-> <<>>]
    ELSE [raised |-> IF bot THEN "RuntimeError" ELSE "None",
          sent |-> IF google_home
                   THEN [i \in 1..Len(alerts) |->
                            [channel |-> "google_home",
                             type |-> ParseAlertType(alerts[i]),
                             alert |-> alerts[i]]]
                   ELSE <<>>]

\* main.py:210: weight_data + sleep_data + bp_data + hr_data.
CalendarBatch(data) ==
    data["withings_weight"] \o data["withings_sleep"]
    \o data["omron_bp"] \o data["omron_hr"]

\* _check_sync_health, main.py:272-278: the sources it logs a warning of.
CheckSyncHealth(statuses) ==
    {s \in SourceIds : statuses[s] # NoStatus /\ statuses[s].status = "error"}

\* main.py:199-229: what the body raises and the state it leaves, given the
\* summary, the alerts derived of it and the outcome of the notifications.
NotificationsAfter(data, sm, new_alerts, sent) ==
    IF sm.raised # "None"
    THEN [raised |-> sm.raised,
          summary |-> NoSummary,
          derived |-> NoAlerts,
          alerts |-> active_alerts,
          sent |-> <<>>,
          events |-> <<>>,
          warned |-> {}]
    ELSE [raised |-> sent.raised,
          summary |-> [built |-> TRUE, families |-> sm.families],
          derived |-> [derived |-> TRUE, alerts |-> new_alerts],
          alerts |-> new_alerts,
          sent |-> sent.sent,
          events |-> IF sent.raised = "None" THEN CalendarBatch(data)
                     ELSE <<>>,
          warned |-> IF sent.raised = "None"
                     THEN CheckSyncHealth(last_sync_status)
                     ELSE {}]

\* main.py:190-196: the alerts derived of the summary, notified when they
\* differ from the active ones.
AlertsAfter(data, sm, new_alerts) ==
    NotificationsAfter(data, sm, new_alerts,
                       IF new_alerts # active_alerts
                       THEN SendAlertNotifications(new_alerts)
                       ELSE [raised |-> "None", sent |-> <<>>])

\* main.py:199: the alerts that check_health_metrics derives of the summary.
SummaryAfter(data, sm) == AlertsAfter(data, sm, CheckHealthMetrics(sm))

\* The body of sync_health_data from line 185 on: what it raises and the
\* state it leaves.
AfterFetch(data) ==
    SummaryAfter(data,
                 GenerateHealthSummary(data["withings_weight"], data["omron_bp"],
                                       data["omron_hr"], data["withings_sleep"]))

\* A tick starts a call on whatever is due.
MayStartWhenDue(kind, due) == kind = "idle" \/ due

\* run, main.py:300-309: the initial call is made before the loop; the loop
\* calls run_pending, which runs the due job in the calling thread, only
\* between calls.
MayStart(kind, due) == kind = "idle" \/ (kind = "returned" /\ due)

\* A call of sync_health_data begins: the initial one of run, main.py:304, or
\* a scheduled one, main.py:301-309.  An exception that leaves
\* sync_health_data leaves run too (main.py:314-316): no call follows it.
StartCycle ==
    /\ MayStart(cycle.kind, job_due)
    /\ cycles < MaxCycles
    /\ cycles' = cycles + 1
    /\ job_due' = FALSE
    /\ sync_warnings' = {}
    /\ cycle' = [kind |-> "running", attempt |-> 0, step |-> 1, what |-> "None"]
    /\ fetched' = [s \in SourceIds |-> "none"]
    /\ series' = [s \in SourceIds |-> <<>>]
    /\ health_summary' = NoSummary
    /\ derived' = NoAlerts
    /\ sync_sleeps' = <<>>
    /\ IF cycle.kind = "idle"
       THEN UNCHANGED <<today, cache_clock>>
       ELSE /\ cache_clock' = cache_clock + SyncInterval
            /\ today' \in {d \in Dates : d >= today}
    /\ UNCHANGED <<last_sync_status, latest_metrics, active_alerts,
                   google_home, bot, notified, published>>
    /\ UNCHANGED <<redis_client, redis_store, local_cache, cache_last,
                   cache_written, cache_calls>>
    /\ UNCHANGED <<rlVars, retryVars, anVars, sumVars, limVars, fetchVars, threadVars>>

\* One _safe_sync call of the cycle, main.py:168-183.
SafeSyncStep ==
    /\ cycle.kind = "running"
    /\ cycle.step \in 1..Len(SyncOrder)
    /\ LET data_type == SyncOrder[cycle.step]
       IN  \E fetch \in
                 {[raised |-> e, data |-> <<>>] : e \in FetchErrors}
                 \cup {[raised |-> "None", data |-> d] : d \in FetchResults[data_type]},
              fault \in {FALSE, redis_client} :
              LET r == SafeSync(data_type, fetch, fault)
              IN  /\ last_sync_status' =
                         [last_sync_status EXCEPT ![data_type] = r.status]
                  /\ redis_store' = r.store
                  /\ local_cache' = r.local
                  /\ fetched' = [fetched EXCEPT ![data_type] = r.how]
                  /\ series' = [series EXCEPT ![data_type] = r.ret]
    /\ cycle' = [cycle EXCEPT !.step = cycle.step + 1]
    /\ UNCHANGED <<latest_metrics, active_alerts, google_home, bot, today,
                   health_summary, derived, notified, published, sync_sleeps, cycles,
                   job_due, sync_warnings>>
    /\ UNCHANGED <<redis_client, cache_clock, cache_last, cache_written,
                   cache_calls>>
    /\ UNCHANGED <<rlVars, retryVars, anVars, sumVars, limVars, fetchVars, threadVars>>

\* The state after the body ended with the outcome r.
AnalyseOutcome(r) ==
    /\ latest_metrics' = UpdateLatest(latest_metrics, series)
    /\ health_summary' = r.summary
    /\ derived' = r.derived
    /\ active_alerts' = r.alerts
    /\ sync_warnings' = r.warned
    /\ notified' = notified \o r.sent
    /\ published' = published \o r.events
    /\ IF r.raised = "None"
       THEN /\ cycle' = [cycle EXCEPT !.kind = "returned", !.step = 0]
            /\ UNCHANGED <<sync_sleeps, cache_clock>>
       ELSE IF BacksOff(cycle.attempt, SyncRetries)
       THEN /\ cycle' = [cycle EXCEPT !.kind = "backoff", !.step = 0,
                                      !.what = r.raised]
            /\ sync_sleeps' = Append(sync_sleeps,
                                     Backoff(SyncDelay, cycle.attempt))
            /\ cache_clock' = cache_clock + Backoff(SyncDelay, cycle.attempt)
       ELSE /\ cycle' = [cycle EXCEPT !.kind = "raised", !.step = 0,
                                      !.what = RaiseOf(r.raised)]
            /\ UNCHANGED <<sync_sleeps, cache_clock>>

\* The rest of the body, main.py:185-229, and what the wrapper of line 163
\* does with its outcome (utils.py:34-48): return, back off and run the
\* body again, or raise.
AnalyseStep ==
    /\ cycle.kind = "running"
    /\ cycle.step = Len(SyncOrder) + 1
    /\ AnalyseOutcome(AfterFetch(series))
    /\ UNCHANGED <<last_sync_status, google_home, bot, today, fetched, series,
                   cycles, job_due>>
    /\ UNCHANGED <<redis_client, redis_store, local_cache, cache_last,
                   cache_written, cache_calls>>
    /\ UNCHANGED <<rlVars, retryVars, anVars, sumVars, limVars, fetchVars, threadVars>>

\* utils.py:38-47 under main.py:163: the backoff over, the wrapper calls the
\* body again.
RunAgain ==
    /\ cycle.kind = "backoff"
    /\ cycle' = [kind |-> "running", attempt |-> cycle.attempt + 1, step |-> 1,
                 what |-> "None"]
    /\ fetched' = [s \in SourceIds |-> "none"]
    /\ series' = [s \in SourceIds |-> <<>>]
    /\ health_summary' = NoSummary
    /\ derived' = NoAlerts
    /\ sync_warnings' = {}
    /\ UNCHANGED <<last_sync_status, latest_metrics, active_alerts,
                   google_home, bot, today, notified, published, sync_sleeps,
                   cycles, job_due>>
    /\ UNCHANGED cacheVars
    /\ UNCHANGED <<rlVars, retryVars, anVars, sumVars, limVars, fetchVars, threadVars>>

\* schedule.every(1).minutes, main.py:301: the job comes due while the
\* thread of run is inside sync_health_data or in the loop of lines 307-309.
JobComesDue ==
    /\ cycle.kind \in {"running", "backoff", "returned"}
    /\ ~job_due
    /\ job_due' = TRUE
    /\ UNCHANGED <<last_sync_status, latest_metrics, active_alerts,
                   google_home, bot, today, cycle, fetched, series,
                   health_summary, derived, notified, published, sync_sleeps,
                   cycles, sync_warnings>>
    /\ UNCHANGED cacheVars
    /\ UNCHANGED <<rlVars, retryVars, anVars, sumVars, limVars, fetchVars, threadVars>>

-----------------------------------------------------------------------------
(***************************************************************************)
(* HealthSync.generate_health_summary, main.py:117-132.                    *)
(***************************************************************************)

\* main.py:121: the age up to which the cached summary is served.
SummaryTtl == 3600

MaxSummaryCalls == 2

\* The order in which the keyword arguments of main.py:125-128 are evaluated.
SummaryOrder == <<"withings_weight", "omron_bp", "omron_hr", "withings_sleep">>

\* What sync_func() may do for a source: raise or return a series.
FetchOutcomes(data_type) ==
    {[raised |-> e, data |-> <<>>] : e \in FetchErrors}
    \cup {[raised |-> "None", data |-> d] : d \in FetchResults[data_type]}

NoSummaryCall == [done |-> FALSE]

IdleSummary ==
    /\ cached_summary = None
    /\ summary_call = NoSummaryCall
    /\ summary_calls = 0

\* main.py:120: datetime.now() - self.cached_summary['timestamp'].  The
\* aggregator stores the timestamp as text (isoformat, advanced_utils.py:125),
\* and a datetime minus a str raises TypeError.
CacheAge(cached, now) ==
    IF cached.timestamp.kind = "str"
    THEN [raised |-> "TypeError", seconds |-> 0]
    ELSE [raised |-> "None", seconds |-> now - cached.timestamp.at]

\* The _safe_sync calls of main.py:125-128 from the i-th on, one after the
\* other, on the state st.
RECURSIVE SafeSyncAll(_, _, _, _)
SafeSyncAll(st, i, fetches, fault) ==
    IF i > Len(SummaryOrder) THEN st
    ELSE LET data_type == SummaryOrder[i]
             r == SafeSyncOn(st.statuses, st.store, st.local, data_type,
                             fetches[data_type], fault)
         IN  SafeSyncAll([statuses |-> [st.statuses EXCEPT ![data_type] = r.status],
                          store |-> r.store,
                          local |-> r.local,
                          how |-> [st.how EXCEPT ![data_type] = r.how],
                          ret |-> [st.ret EXCEPT ![data_type] = r.ret]],
                         i + 1, fetches, fault)

\* A call of HealthSync.generate_health_summary (by the bot, telegram_bot.py:91).
HealthSummaryRequest ==
    /\ summary_calls < MaxSummaryCalls
    /\ summary_calls' = summary_calls + 1
    /\ LET age == IF cached_summary.some
                  THEN CacheAge(cached_summary.val, cache_clock)
                  ELSE [raised |-> "None", seconds |-> SummaryTtl]
       IN  IF age.raised # "None"
           THEN /\ summary_call' = [done |-> TRUE, at |-> cache_clock,
                                    raised |-> age.raised, hit |-> FALSE,
                                    fetches |-> {}, before |-> cached_summary]
                /\ UNCHANGED <<cached_summary, last_sync_status, redis_store,
                               local_cache>>
           ELSE IF age.seconds < SummaryTtl
           THEN /\ summary_call' = [done |-> TRUE, at |-> cache_clock,
                                    raised |-> "None", hit |-> TRUE,
                                    fetches |-> {}, before |-> cached_summary]
                /\ UNCHANGED <<cached_summary, last_sync_status, redis_store,
                               local_cache>>
           ELSE \E weight \in FetchOutcomes("withings_weight"),
                   bp \in FetchOutcomes("omron_bp"),
                   hr \in FetchOutcomes("omron_hr"),
                   sleep \in FetchOutcomes("withings_sleep"),
                   fault \in {FALSE, redis_client} :
                   /\ LET fetches == [withings_weight |-> weight,
                                      omron_bp |-> bp, omron_hr |-> hr,
                                      withings_sleep |-> sleep]
                          st == SafeSyncAll(
                                    [statuses |-> last_sync_status,
                                     store |-> redis_store,
                                     local |-> local_cache,
                                     how |-> [s \in SourceIds |-> "none"],
                                     ret |-> [s \in SourceIds |-> <<>>]],
                                    1, fetches, fault)
                          sm == GenerateHealthSummary(
                                    st.ret["withings_weight"], st.ret["omron_bp"],
                                    st.ret["omron_hr"], st.ret["withings_sleep"])
                      IN  /\ last_sync_status' = st.statuses
                          /\ redis_store' = st.store
                          /\ local_cache' = st.local
                          /\ cached_summary' =
                                 IF sm.raised # "None" THEN cached_summary
                                 ELSE Some([timestamp |-> IsoString(cache_clock),
                                            families |-> sm.families])
                          /\ summary_call' =
                                 [done |-> TRUE, at |-> cache_clock,
                                  raised |-> sm.raised, hit |-> FALSE,
                                  fetches |-> {s \in SourceIds :
                                                  st.how[s] # "hit"},
                                  before |-> cached_summary]
    /\ UNCHANGED <<latest_metrics, active_alerts, google_home, bot, today,
                   cycle, fetched, series, health_summary, derived, notified,
                   published, sync_sleeps, cycles, job_due, sync_warnings>>
    /\ UNCHANGED <<redis_client, cache_clock, cache_last, cache_written,
                   cache_calls>>
    /\ UNCHANGED <<rlVars, retryVars, anVars, limVars, fetchVars, threadVars>>

-----------------------------------------------------------------------------
(***************************************************************************)
(* The limiters of the handlers.  A RateLimiter object is made where the   *)
(* decorator expression @RateLimiter(calls_per_minute=30) is evaluated,    *)
(* once per decorated function: withings_handler.py:23 (get_weight_data),  *)
(* withings_handler.py:46 (get_sleep_data) and omron_handler.py:18         *)
(* (_make_request, through which both get_blood_pressure_data and          *)
(* get_heart_rate_data go, omron_handler.py:45 and 72).  The attribute     *)
(* self.rate_limiter of the handlers is never used.                        *)
(***************************************************************************)

HandlerLimit == 30

MaxSourceCalls == 31

Limiters == {"get_weight_data", "get_sleep_data", "_make_request"}

\* The decorated function through which each source's request goes.
LimiterOf ==
    [withings_weight |-> "get_weight_data",
     withings_sleep  |-> "get_sleep_data",
     omron_bp        |-> "_make_request",
     omron_hr        |-> "_make_request"]

NoSourceCall == [source |-> "None", waited |-> 0]

IdleLimiters ==
    /\ limiter_calls = [l \in Limiters |-> <<>>]
    /\ lim_clock = 0
    /\ lim_last = NoSourceCall
    /\ source_calls = [s \in SourceIds |-> 0]

\* One rate-limited request of a source: wrapper(), utils.py:13-26, on the
\* limiter of the function the request goes through.
SourceCall ==
    /\ Sum([i \in 1..Len(SyncOrder) |-> source_calls[SyncOrder[i]]])
           < MaxSourceCalls
    /\ \E s \in SourceIds :
          LET l == LimiterOf[s]
              now == lim_clock
              kept == Prune(limiter_calls[l], now)
              sleep_time == SleepTime(kept, now, HandlerLimit)
              after == now + sleep_time * TicksPerSecond
          IN  /\ lim_clock' = after
              /\ limiter_calls' =
                     [limiter_calls EXCEPT ![l] = Append(kept, Recorded(now, after))]
              /\ lim_last' = [source |-> s, waited |-> sleep_time]
              /\ source_calls' = [source_calls EXCEPT ![s] = source_calls[s] + 1]
    /\ UNCHANGED <<rlVars, retryVars, cacheVars, syncVars, anVars, sumVars, fetchVars,
                   threadVars>>

-----------------------------------------------------------------------------
(***************************************************************************)
(* The fetch of a source inside _safe_sync: the handlers' methods with     *)
(* their decorators (withings_handler.py:22-72, omron_handler.py:17-93),   *)
(* called one source after the other by sync_health_data, main.py:168-183, *)
(* in the thread that runs the cycle.                                      *)
(*                                                                         *)
(* get_weight_data and get_sleep_data are retry(limiter(body)); the Omron  *)
(* methods are retry(body) and their body calls _make_request, itself      *)
(* retry(limiter(request)).                                                *)
(***************************************************************************)

\* withings_handler.py:22, 45; omron_handler.py:17, 41, 68.
HandlerRetries == 3

HandlerDelay == 1

\* The timestamps a limiter holds when 29 requests went through it at the
\* instant the cycle's fetches begin.
BusyCalls == HandlerLimit - 1

\* Whether the source's method calls _make_request, which has a retry
\* wrapper of its own (omron_handler.py:17, 45, 72).
Nested(data_type) == LimiterOf[data_type] = "_make_request"

\* A raw reading of a response: one the handler's loop can convert, and one
\* it cannot (a missing key, a timestamp that does not parse).
Raw(reading) == [ok |-> TRUE, reading |-> reading]

Malformed(reading) == [ok |-> FALSE, reading |-> reading]

SampleReading ==
    [withings_weight |-> WeightReading(70, 1),
     withings_sleep  |-> SleepReading("deep", 0, 300),
     omron_bp        |-> BpReading(120, 80, 1),
     omron_hr        |-> HrReading(80, 1)]

\* A response with a malformed reading between two well-formed ones.
MalformedResponse(data_type) ==
    <<Raw(SampleReading[data_type]), Malformed(SampleReading[data_type]),
      Raw(SampleReading[data_type])>>

\* The responses of a source: those whose readings are all well-formed and
\* the one with a malformed reading.
RawResponses(data_type) ==
    {[i \in 1..Len(d) |-> Raw(d[i])] : d \in FetchResults[data_type]}
    \cup {MalformedResponse(data_type)}

\* The well-formed readings of a response, converted.
WellFormed(raw) ==
    LET kept == SelectSeq(raw, LAMBDA r : r.ok)
    IN  [i \in 1..Len(kept) |-> kept[i].reading]

\* What the conversion of a malformed reading raises: None * 0.001 and
\* datetime.fromtimestamp(None) a TypeError, reading['systolic'] a KeyError.
ParseError(data_type) == IF Nested(data_type) THEN "KeyError" ELSE "TypeError"

\* The loops of withings_handler.py:30-38, 56-67 and omron_handler.py:50-61,
\* 77-88: the exception of the first malformed reading leaves the loop.
FormatReadings(data_type, raw) ==
    IF \E i \in 1..Len(raw) : ~raw[i].ok
    THEN [raised |-> ParseError(data_type), data |-> <<>>]
    ELSE [raised |-> "None", data |-> WellFormed(raw)]

\* What the network request of an attempt does: it fails, or it returns a
\* response; the requests of a source that is not faulty return well-formed
\* readings.
RequestOutcomes(data_type, faulty) ==
    IF data_type = faulty
    THEN {[failed |-> TRUE, raw |-> <<>>]}
         \cup {[failed |-> FALSE, raw |-> r] : r \in RawResponses(data_type)}
    ELSE {[failed |-> FALSE, raw |-> [i \in 1..Len(d) |-> Raw(d[i])]] :
             d \in FetchResults[data_type]}

\* An entry of the log: an acquisition and its wait, a backoff and its
\* sleep (seconds), or a request and the readings of its response, with the
\* instant at which it was over.
Event(ev, n, at) == [ev |-> ev, n |-> n, at |-> at]

\* The function called without its limiter.
LimiterBypassed(cs, now, limit) == [sleep_time |-> 0, calls |-> cs]

\* The limiter's wrapper, utils.py:13-25, on the timestamps cs at the
\* instant now: the seconds it sleeps and the timestamps it leaves.
LimiterWrapper(cs, now, limit) ==
    [sleep_time |-> SleepTime(Prune(cs, now), now, limit),
     calls |-> Append(Prune(cs, now),
                      Recorded(now, now + SleepTime(Prune(cs, now), now, limit)
                                          * TicksPerSecond))]

\* faulty is the source whose requests may fail or return a malformed
\* reading in this cycle.
NoFetch == [kind |-> "idle", step |-> 1, outer |-> 0, inner |-> 0,
            wrapper |-> "None", seconds |-> 0, what |-> "None", data |-> <<>>,
            faulty |-> "None"]

IdleFetch ==
    /\ fetch_pc = NoFetch
    /\ fetch_log = <<>>

\* utils.py:37-48 in the wrapper of the method: the exception e has left
\* the method's body in attempt pc.outer.
MethodFailure(pc, e) ==
    IF BacksOff(pc.outer, HandlerRetries)
    THEN [pc EXCEPT !.kind = "backoff", !.wrapper = "method",
                    !.seconds = Backoff(HandlerDelay, pc.outer), !.what = e]
    ELSE [pc EXCEPT !.kind = "raised", !.what = RaiseOf(e)]

\* utils.py:37-48 in the wrapper of _make_request: the exception e has left
\* the request in attempt pc.inner; the exception the wrapper raises in the
\* end leaves the method's body too (omron_handler.py:64-66, 91-93).
RequestFailure(pc, e) ==
    IF BacksOff(pc.inner, HandlerRetries)
    THEN [pc EXCEPT !.kind = "backoff", !.wrapper = "_make_request",
                    !.seconds = Backoff(HandlerDelay, pc.inner), !.what = e]
    ELSE MethodFailure(pc, RaiseOf(e))

\* Where the thread is after an attempt of the rate-limited function with
\* the given outcome of its network request.
AfterRequest(pc, data_type, request, formatted) ==
    IF request.failed
    THEN IF Nested(data_type)
         THEN RequestFailure(pc, "ConnectionError")
         ELSE MethodFailure(pc, "ConnectionError")
    ELSE IF formatted.raised # "None"
    THEN MethodFailure(pc, formatted.raised)
    ELSE [pc EXCEPT !.kind = "returned", !.data = formatted.data]

\* The event of the request in the log.
RequestEvent(request, formatted, at) ==
    IF request.failed THEN Event("request_failed", 0, at)
    ELSE IF formatted.raised # "None" THEN Event("malformed", Len(request.raw), at)
    ELSE Event("response", Len(request.raw), at)

\* main.py:134-161 around the fetch: _safe_sync ends with what sync_func()
\* has returned or raised, and the cycle goes on to the next source.
EndSafeSync(data_type, fetch, fault) ==
    LET r == SafeSyncOn(last_sync_status, redis_store, local_cache, data_type,
                        fetch, fault)
    IN  /\ last_sync_status' = [last_sync_status EXCEPT ![data_type] = r.status]
        /\ redis_store' = r.store
        /\ local_cache' = r.local
        /\ fetched' = [fetched EXCEPT ![data_type] = r.how]
        /\ series' = [series EXCEPT ![data_type] = r.ret]

\* The thread after an attempt: in a backoff, or back in sync_health_data.
AfterAttempt(data_type, next) ==
    IF next.kind = "backoff"
    THEN /\ fetch_pc' = next
         /\ UNCHANGED <<last_sync_status, redis_store, local_cache, fetched,
                        series>>
    ELSE /\ fetch_pc' = [NoFetch EXCEPT !.step = fetch_pc.step + 1,
                                        !.faulty = fetch_pc.faulty]
         /\ \E fault \in {FALSE, redis_client} :
               EndSafeSync(data_type,
                           [raised |-> IF next.kind = "raised" THEN next.what
                                       ELSE "None",
                            data |-> next.data],
                           fault)

\* main.py:136-142: a _safe_sync call of the cycle begins; it returns the
\* cached data, or goes on to sync_func().
BeginSafeSyncOf(data_type) ==
    /\ fetch_pc.kind = "idle"
    /\ fetch_pc.step <= Len(SyncOrder)
    /\ data_type = SyncOrder[fetch_pc.step]
    /\ fetch_log' = <<>>
    /\ IF Truthy(GetCachedData(redis_client, redis_store, local_cache,
                               Descriptor(data_type, today), cache_clock))
       THEN /\ fetch_pc' = [fetch_pc EXCEPT !.step = fetch_pc.step + 1]
            /\ EndSafeSync(data_type, [raised |-> "None", data |-> <<>>], FALSE)
       ELSE /\ fetch_pc' = [fetch_pc EXCEPT !.kind = "attempt"]
            /\ UNCHANGED <<last_sync_status, redis_store, local_cache, fetched,
                           series>>
    /\ UNCHANGED <<latest_metrics, active_alerts, google_home, bot, today,
                   cycle, health_summary, derived, notified, published,
                   sync_sleeps, cycles, job_due, sync_warnings>>
    /\ UNCHANGED <<redis_client, cache_clock, cache_last, cache_written,
                   cache_calls>>
    /\ UNCHANGED <<rlVars, retryVars, anVars, sumVars, limVars, threadVars>>

BeginSafeSync == \E data_type \in SourceIds : BeginSafeSyncOf(data_type)

\* One attempt of the rate-limited function: the limiter's wrapper,
\* utils.py:13-26, then the network request and, for a response, the
\* conversion of its readings, then the retry wrappers around them.
RequestAttempt ==
    /\ fetch_pc.kind = "attempt"
    /\ LET data_type == SyncOrder[fetch_pc.step]
           l == LimiterOf[data_type]
           acquired == LimiterWrapper(limiter_calls[l], lim_clock, HandlerLimit)
       IN  /\ lim_clock' = lim_clock + acquired.sleep_time * TicksPerSecond
           /\ limiter_calls' = [limiter_calls EXCEPT ![l] = acquired.calls]
           /\ \E request \in RequestOutcomes(data_type, fetch_pc.faulty) :
                 /\ fetch_log' =
                        fetch_log \o
                        << Event("acquire", acquired.sleep_time, lim_clock'),
                           RequestEvent(request,
                                        FormatReadings(data_type, request.raw),
                                        lim_clock') >>
                 /\ AfterAttempt(data_type,
                                 AfterRequest(fetch_pc, data_type, request,
                                     FormatReadings(data_type, request.raw)))
    /\ UNCHANGED <<latest_metrics, active_alerts, google_home, bot, today,
                   cycle, health_summary, derived, notified, published,
                   sync_sleeps, cycles, job_due, sync_warnings>>
    /\ UNCHANGED <<redis_client, cache_clock, cache_last, cache_written,
                   cache_calls>>
    /\ UNCHANGED <<lim_last, source_calls>>
    /\ UNCHANGED <<rlVars, retryVars, anVars, sumVars, threadVars>>

\* utils.py:45: time.sleep(sleep_time) of a retry wrapper returns, and the
\* wrapper's loop goes on to its next attempt.
BackoffOver ==
    /\ fetch_pc.kind = "backoff"
    /\ lim_clock' = lim_clock + fetch_pc.seconds * TicksPerSecond
    /\ fetch_log' = Append(fetch_log, Event("backoff", fetch_pc.seconds, lim_clock'))
    /\ fetch_pc' =
           IF fetch_pc.wrapper = "_make_request"
           THEN [fetch_pc EXCEPT !.kind = "attempt", !.inner = fetch_pc.inner + 1,
                                 !.wrapper = "None", !.seconds = 0]
           ELSE [fetch_pc EXCEPT !.kind = "attempt", !.outer = fetch_pc.outer + 1,
                                 !.inner = 0, !.wrapper = "None", !.seconds = 0]
    /\ UNCHANGED <<limiter_calls, lim_last, source_calls>>
    /\ UNCHANGED <<rlVars, retryVars, cacheVars, syncVars, anVars, sumVars, threadVars>>

\* The limiters when the cycle's fetches begin: nothing has called them, or
\* BusyCalls requests have just gone through the limiter of the faulty
\* source.
InitFetchLimiters ==
    /\ lim_clock = 0
    /\ lim_last = NoSourceCall
    /\ source_calls = [s \in SourceIds |-> 0]
    /\ \E busy \in {LimiterOf[fetch_pc.faulty], "None"} :
          limiter_calls = [l \in Limiters |->
                              IF l = busy THEN [i \in 1..BusyCalls |-> 0]
                              ELSE <<>>]

-----------------------------------------------------------------------------
(***************************************************************************)
(* Two threads in the wrapper of one RateLimiter, utils.py:13-26: the      *)
(* thread of run, in the cycle (main.py:304, 308), and the thread of the   *)
(* bot (main.py:294-298), in generate_health_summary (telegram_bot.py:91,  *)
(* main.py:124-129).  Both reach the same decorated function, and the      *)
(* wrapper takes no lock: a thread switch can come between any two of its  *)
(* statements, and between the evaluation of the list of line 16-17 and    *)
(* its assignment to self.calls.                                           *)
(***************************************************************************)

Threads == {"run", "bot"}

NotCalled == [pc |-> "idle", now |-> 0, kept |-> <<>>, wake |-> 0, slept |-> 0]

IdleThreads == threads = [t \in Threads |-> NotCalled]

\* utils.py:14: now = datetime.now().
ThreadReadsClock(t) ==
    /\ threads[t].pc = "idle"
    /\ threads' = [threads EXCEPT ![t].pc = "pruning", ![t].now = clock]
    /\ UNCHANGED <<rlVars, retryVars, cacheVars, syncVars, anVars, sumVars,
                   limVars, fetchVars>>

\* utils.py:16-17, the right-hand side: the list of the timestamps of
\* self.calls younger than a minute.
ThreadPrunes(t) ==
    /\ threads[t].pc = "pruning"
    /\ threads' = [threads EXCEPT ![t].pc = "storing",
                                  ![t].kept = Prune(calls, threads[t].now)]
    /\ UNCHANGED <<rlVars, retryVars, cacheVars, syncVars, anVars, sumVars,
                   limVars, fetchVars>>

\* utils.py:16: self.calls = the list.
ThreadStores(t) ==
    /\ threads[t].pc = "storing"
    /\ calls' = threads[t].kept
    /\ threads' = [threads EXCEPT ![t].pc = "checking"]
    /\ UNCHANGED <<clock, calls_per_minute, issued, waited>>
    /\ UNCHANGED <<retryVars, cacheVars, syncVars, anVars, sumVars, limVars,
                   fetchVars>>

\* utils.py:19-23: the test of the length and the start of the sleep.
ThreadChecks(t) ==
    /\ threads[t].pc = "checking"
    /\ threads' =
           [threads EXCEPT
               ![t].pc = IF SleepTime(calls, threads[t].now, calls_per_minute) > 0
                         THEN "sleeping" ELSE "appending",
               ![t].slept = SleepTime(calls, threads[t].now, calls_per_minute),
               ![t].wake = clock + SleepTime(calls, threads[t].now,
                                             calls_per_minute) * TicksPerSecond]
    /\ UNCHANGED <<rlVars, retryVars, cacheVars, syncVars, anVars, sumVars,
                   limVars, fetchVars>>

\* utils.py:23: time.sleep returns.
ThreadWakes(t) ==
    /\ threads[t].pc = "sleeping"
    /\ clock' = Max2(clock, threads[t].wake)
    /\ threads' = [threads EXCEPT ![t].pc = "appending"]
    /\ UNCHANGED <<calls_per_minute, calls, issued, waited>>
    /\ UNCHANGED <<retryVars, cacheVars, syncVars, anVars, sumVars, limVars,
                   fetchVars>>

\* utils.py:25: self.calls.append(now).
ThreadAppends(t) ==
    /\ threads[t].pc = "appending"
    /\ calls' = Append(calls, Recorded(threads[t].now, clock))
    /\ threads' = [threads EXCEPT ![t].pc = "calling"]
    /\ UNCHANGED <<clock, calls_per_minute, issued, waited>>
    /\ UNCHANGED <<retryVars, cacheVars, syncVars, anVars, sumVars, limVars,
                   fetchVars>>

\* utils.py:26: the wrapped function is invoked, and returns.
ThreadCalls(t) ==
    /\ threads[t].pc = "calling"
    /\ issued' = Append(issued, clock)
    /\ waited' = Append(waited, threads[t].slept)
    /\ threads' = [threads EXCEPT ![t].pc = "returned"]
    /\ UNCHANGED <<clock, calls_per_minute, calls>>
    /\ UNCHANGED <<retryVars, cacheVars, syncVars, anVars, sumVars, limVars,
                   fetchVars>>

\* The instants to which time passes while the threads are in the wrapper,
\* unless a sleep takes it further: half a second and half a minute.
ThreadInstants == {1, Window \div 2}

ThreadTick ==
    /\ \E i \in ThreadInstants :
          /\ i > clock
          /\ clock' = i
    /\ UNCHANGED <<calls_per_minute, calls, issued, waited>>
    /\ UNCHANGED <<retryVars, cacheVars, syncVars, anVars, sumVars, limVars,
                   fetchVars, threadVars>>

ThreadStep ==
    \E t \in Threads :
        \/ ThreadReadsClock(t)
        \/ ThreadPrunes(t)
        \/ ThreadStores(t)
        \/ ThreadChecks(t)
        \/ ThreadWakes(t)
        \/ ThreadAppends(t)
        \/ ThreadCalls(t)

-----------------------------------------------------------------------------
(* The specifications.                                                     *)

InitRL == /\ FreshRL
          /\ calls_per_minute \in 1..MaxLimit
          /\ IdleRetry
          /\ IdleCache
          /\ IdleSync
          /\ IdleAnalysis
          /\ IdleSummary
          /\ IdleLimiters
          /\ IdleFetch
          /\ IdleThreads

NextRL == Acquire \/ Tick

SpecRL == InitRL /\ [][NextRL]_vars

InitRetrySpec ==
    /\ InitRetry
    /\ IdleRL /\ IdleCache /\ IdleSync /\ IdleAnalysis /\ IdleSummary
    /\ IdleLimiters
    /\ IdleFetch
    /\ IdleThreads

NextRetry == AttemptReturns \/ AttemptRaises \/ Exhausted

SpecRetry == InitRetrySpec /\ [][NextRetry]_vars

InitCache == /\ EmptyCache
             /\ redis_client \in BOOLEAN
             /\ IdleRL
             /\ IdleRetry
             /\ IdleSync
             /\ IdleAnalysis
             /\ IdleSummary
             /\ IdleLimiters
             /\ IdleFetch
             /\ IdleThreads

NextCache == CacheDataCall \/ GetCachedDataCall \/ CacheTick

SpecCache == InitCache /\ [][NextCache]_vars

InitSync == /\ InitSyncState
            /\ google_home \in BOOLEAN
            /\ bot \in BOOLEAN
            /\ EmptyCache
            /\ redis_client \in BOOLEAN
            /\ IdleRL
            /\ IdleRetry
            /\ IdleAnalysis
            /\ IdleSummary
            /\ IdleLimiters
            /\ IdleFetch
            /\ IdleThreads

NextSync == StartCycle \/ SafeSyncStep \/ AnalyseStep \/ RunAgain \/ JobComesDue

SpecSync == InitSync /\ [][NextSync]_vars

InitAnalysisSpec ==
    /\ InitAnalysis
    /\ IdleRL /\ IdleRetry /\ IdleCache /\ IdleSync /\ IdleSummary
    /\ IdleLimiters
    /\ IdleFetch
    /\ IdleThreads

NextAnalysis ==
    \/ AnalyzeWeightTrendCall
    \/ AnalyzeBloodPressureTrendCall
    \/ GenerateHealthSummaryCall
    \/ CheckHealthMetricsCall

SpecAnalysis == InitAnalysisSpec /\ [][NextAnalysis]_vars

InitSummary == /\ IdleSummary
               /\ IdleSync
               /\ EmptyCache
               /\ redis_client \in BOOLEAN
               /\ IdleRL
               /\ IdleRetry
               /\ IdleAnalysis
               /\ IdleLimiters
               /\ IdleFetch
               /\ IdleThreads

NextSummary == HealthSummaryRequest \/ CacheTick

SpecSummary == InitSummary /\ [][NextSummary]_vars

InitLimiters ==
    /\ IdleLimiters
    /\ IdleFetch
    /\ IdleThreads
    /\ IdleRL /\ IdleRetry /\ IdleCache /\ IdleSync /\ IdleAnalysis
    /\ IdleSummary

NextLimiters == SourceCall

SpecLimiters == InitLimiters /\ [][NextLimiters]_vars

InitFetch ==
    /\ \E faulty \in SourceIds : fetch_pc = [NoFetch EXCEPT !.faulty = faulty]
    /\ fetch_log = <<>>
    /\ InitFetchLimiters
    /\ InitSyncState /\ google_home = FALSE /\ bot = FALSE
    /\ EmptyCache
    /\ redis_client \in BOOLEAN
    /\ IdleRL /\ IdleRetry /\ IdleAnalysis /\ IdleSummary
    /\ IdleThreads

NextFetch == BeginSafeSync \/ RequestAttempt \/ BackoffOver

SpecFetch == InitFetch /\ [][NextFetch]_vars

InitThreads ==
    /\ IdleThreads
    /\ FreshRL
    /\ calls_per_minute \in 1..MaxLimit
    /\ IdleRetry /\ IdleCache /\ IdleSync /\ IdleAnalysis /\ IdleSummary
    /\ IdleLimiters
    /\ IdleFetch

NextThreads == ThreadStep \/ ThreadTick

SpecThreads == InitThreads /\ [][NextThreads]_vars

-----------------------------------------------------------------------------
(* RateLimiter: the claims.                                                *)

\* The number of invocations in the trailing window that ends at instant t.
IssuedInWindow(t) ==
    Cardinality({i \in 1..Len(issued) : issued[i] <= t /\ t - issued[i] < Window})

(* C1: in every trailing 60-second window, the number of calls actually    *)
(* issued by a rate-limited function never exceeds calls_per_minute.       *)
C1_WindowBound ==
    \A i \in 1..Len(issued) : IssuedInWindow(issued[i]) <= calls_per_minute

-----------------------------------------------------------------------------
(* retry_on_exception: the claims.                                         *)

Failures(h) == SelectSeq(h, LAMBDA o : ~o.ok)

\* The invocations so far all failed.
AllFailed == \A i \in 1..Len(invocations) : ~invocations[i].ok

\* The invocations so far are k failures followed by one success.
FailedThenSucceeded ==
    /\ invocations # <<>>
    /\ Last(invocations).ok
    /\ \A i \in 1..(Len(invocations) - 1) : ~invocations[i].ok

(* C2: an operation that fails exactly k < retries times and then succeeds *)
(* makes the wrapper return the success value after exactly k+1            *)
(* invocations, with exactly k logged retries and k backoff sleeps, none   *)
(* after the successful invocation; an operation that has failed fewer     *)
(* than retries times is still being retried.                              *)
C2_FailKThenSucceed ==
    LET k == Len(Failures(invocations))
    IN  /\ (k < retries /\ AllFailed) => outcome.kind = "running"
        /\ (invocations # <<>> /\ Last(invocations).ok) =>
              /\ FailedThenSucceeded
              /\ k < retries
              /\ Len(invocations) = k + 1
              /\ outcome = [kind |-> "returned", what |-> Last(invocations).what]
              /\ warnings = k
              /\ Len(sleeps) = k
              /\ ~ENABLED NextRetry

C2_Witness ==
    /\ outcome.kind = "returned"
    /\ Len(invocations) = 3
    /\ retries = 3
    /\ Len(sleeps) = 2

\* The sleeps of a wrapper whose n invocations all failed.
BackoffSchedule(d, n) == [i \in 1..(IF n > 1 THEN n - 1 ELSE 0) |-> d * Pow2(i - 1)]

(* C3: an operation that always fails is invoked exactly `retries` times,  *)
(* with sleeps of delay*2^i for i = 0 .. retries-2 in that order between   *)
(* consecutive invocations and none after the last, and the wrapper then   *)
(* raises the exception of the last invocation (retries >= 1).             *)
C3_AlwaysFails ==
    /\ (AllFailed /\ ~ENABLED NextRetry) =>
          /\ Len(invocations) = retries
          /\ sleeps = BackoffSchedule(delay, retries)
          /\ outcome.kind = "raised"
          /\ retries >= 1 => outcome.what = Last(invocations).what
    /\ AllFailed => /\ Len(sleeps) = (IF Len(invocations) < retries
                                      THEN Len(invocations)
                                      ELSE Len(BackoffSchedule(delay, retries)))
                    /\ outcome.kind = "raised" => Len(invocations) = retries

C3_Witness ==
    /\ outcome.kind = "raised"
    /\ retries = 4
    /\ delay = 2
    /\ sleeps = <<2, 4, 8>>
    /\ outcome.what = "E2"

-----------------------------------------------------------------------------
(* CacheManager: the claims.                                               *)

\* The last call was get_cached_data for the key of the latest cache_data
\* call.
GetAfterPut ==
    /\ cache_last.op = "get_cached_data"
    /\ cache_written.written
    /\ cache_written.key = GenerateKey(cache_last.desc)

(* C8: get_cached_data(d) issued right after cache_data(d, v) returns v,   *)
(* with and without a remote tier, whatever was stored under d before      *)
(* (the remote tier being in order).                                       *)
C8_RoundTrip ==
    (GetAfterPut /\ cache_written.at = cache_last.at /\ ~cache_written.fault)
    => /\ cache_written.raised = "None"
       /\ cache_last.ret = Some(cache_written.value)

(* C9: if the remote tier's write fails during cache_data, the value is    *)
(* still stored in the local tier and cache_data does not raise.           *)
C9_RemoteFailureKeepsLocal ==
    (cache_last.op = "cache_data" /\ cache_last.fault) =>
        /\ cache_last.raised = "None"
        /\ local_cache[GenerateKey(cache_last.desc)] = Some(cache_last.value)

(* C10: a value written with cache_data(d, v, ttl) is no longer returned   *)
(* by get_cached_data(d) once ttl seconds have elapsed without a later     *)
(* write for d, with or without a remote tier.                             *)
C10_Expires ==
    (/\ GetAfterPut
     /\ cache_written.raised = "None"
     /\ cache_last.at - cache_written.at >= cache_written.ttl)
    => cache_last.ret # Some(cache_written.value)

-----------------------------------------------------------------------------
(* HealthSync: the claims.                                                 *)

\* One run of the body of sync_health_data has ended.
BodyEnded == cycle.kind \in {"returned", "backoff", "raised"}

\* The metric family of a source.
FamilyOf ==
    [withings_weight |-> "weight", withings_sleep |-> "sleep",
     omron_bp |-> "blood_pressure", omron_hr |-> "heart_rate"]

\* In this run the fetch of f failed and the three other fetches returned.
OnlyFailed(f) ==
    /\ fetched[f] = "failed"
    /\ \A s \in SourceIds \ {f} : fetched[s] = "fetched"

\* The heart-rate series of this run calls for the "heart rate max" alert.
HighHeartRate ==
    \E i \in 1..Len(series["omron_hr"]) :
        series["omron_hr"][i].value > HrMaxLimit

(* C4: in a cycle where one source's fetch fails and the other three       *)
(* succeed, a health summary is still produced and holds the families of   *)
(* the three sources that succeeded, and the status is error for exactly   *)
(* the failed source and success for the other three.                      *)
C4_OneSourceFails ==
    \A f \in SourceIds :
        (BodyEnded /\ OnlyFailed(f)) =>
            /\ health_summary.built
            /\ \A s \in SourceIds \ {f} :
                  /\ series[s] # <<>> => FamilyOf[s] \in health_summary.families
                  /\ last_sync_status[s].status = "success"
            /\ last_sync_status[f].status = "error"

(* C5: no invocation of sync_health_data ends by raising: whatever the     *)
(* fetches, the calendar and the notification channels do, the cycle       *)
(* returns normally.                                                       *)
C5_CycleReturns == cycle.kind # "raised"

(* C6: notifications are sent only by a cycle whose derived alert list     *)
(* differs from active_alerts, so a condition that persists over the       *)
(* cycles has been notified exactly once.                                  *)
C6_PersistingNotifiedOnce ==
    (/\ cycle.kind \in {"returned", "raised"}
     /\ google_home
     /\ ~bot
     /\ HighHeartRate)
    => Len(SelectSeq(notified, LAMBDA n : n.alert.rule = "heart_rate_max")) = 1

(* C7: a cycle whose derived alert list differs from active_alerts         *)
(* publishes to every enabled channel: with no alert active before it and  *)
(* a series that calls for one, the Google Home channel, if enabled, has   *)
(* been handed a notification when the cycle ends.                         *)
C7_ChangePublished ==
    (/\ BodyEnded
     /\ cycles = 1
     /\ HighHeartRate
     /\ google_home)
    => \E i \in 1..Len(notified) : notified[i].channel = "google_home"

\* The cache holds an entry for (source, current date).
CacheHolds(data_type) ==
    GetCachedData(redis_client, redis_store, local_cache,
                  Descriptor(data_type, today), cache_clock).some

\* This step is the _safe_sync call for the next source of the cycle.
SafeSyncOf(data_type) ==
    /\ cycle.kind = "running"
    /\ cycle.step \in 1..Len(SyncOrder)
    /\ SyncOrder[cycle.step] = data_type
    /\ cycle'.step = cycle.step + 1

(* C11: a _safe_sync call made while the cache holds an entry for (source, *)
(* current date) is served from the cache and does not invoke the source   *)
(* fetch, whatever the value that was fetched and cached before.           *)
C11_HitSkipsFetch ==
    [][\A s \in SourceIds :
          (SafeSyncOf(s) /\ CacheHolds(s)) => fetched'[s] = "hit"]_vars

-----------------------------------------------------------------------------
(* The analysis: the claims.                                               *)

\* The rule table, in its order.
RuleOrder ==
    <<"blood_pressure_trend", "heart_rate_max", "heart_rate_variability",
      "sleep_duration", "sleep_consistency">>

RuleIndex(rule) == CHOOSE i \in 1..Len(RuleOrder) : RuleOrder[i] = rule

\* Whether the condition of a rule holds for a summary.
RuleHolds(sm, rule) ==
    LET hr == sm.heart_rate
        sl == sm.sleep
    IN  CASE rule = "blood_pressure_trend" ->
                 sm.blood_pressure.trend = "concerning"
          [] rule = "heart_rate_max" ->
                 hr.present /\ hr.max > 100
          [] rule = "heart_rate_variability" ->
                 /\ hr.present
                 /\ hr.max <= 100
                 /\ hr.var_num > (20 * hr.var_den) * (20 * hr.var_den)
          [] rule = "sleep_duration" ->
                 sl.present /\ sl.sum < 6 * 60 * sl.n
          [] rule = "sleep_consistency" ->
                 /\ sl.present
                 /\ sl.var_num > (2 * 60 * sl.var_den) * (2 * 60 * sl.var_den)

AlertsOf(alerts, rules) == SelectSeq(alerts, LAMBDA a : a.rule \in rules)

(* C12: check_health_metrics returns, in the order of the rule table, one  *)
(* alert for each rule whose condition holds and none for the others; a    *)
(* summary with heart-rate max 105 yields exactly one heart-rate alert, a  *)
(* warning that carries the max value.                                     *)
C12_RuleTable ==
    analysis.op = "check_health_metrics" =>
        LET sm == analysis.summary
            out == analysis.result
        IN  /\ \A i \in 1..Len(RuleOrder) :
                  Len(AlertsOf(out, {RuleOrder[i]}))
                      = (IF RuleHolds(sm, RuleOrder[i]) THEN 1 ELSE 0)
            /\ \A i, j \in 1..Len(out) :
                  i < j => RuleIndex(out[i].rule) < RuleIndex(out[j].rule)
            /\ (sm.heart_rate.present /\ sm.heart_rate.max = 105) =>
                  AlertsOf(out, {"heart_rate_max", "heart_rate_variability"})
                      = <<Alert("heart_rate_max", "warning", <<105>>)>>

C12_Witness ==
    /\ analysis.op = "check_health_metrics"
    /\ analysis.summary.heart_rate.present
    /\ analysis.summary.heart_rate.max = 105
    /\ Len(analysis.result) = 4

\* The values of a series, taken in timestamp order.
ValuesInOrder(data) ==
    LET df == SortByTimestamp(data) IN [i \in 1..Len(df) |-> df[i].value]

\* The sum of the last 3 values minus the sum of the first 3 (of all the
\* values if there are fewer): the window size times the change of the mean.
WindowChange(values) == Sum(Tail3(values, 3)) - Sum(Head3(values, 3))

WindowSize(values) == Len(Head3(values, 3))

(* C13: for the weight and for the blood-pressure analyzer and for every   *)
(* series, the returned trend is neutral if and only if the series has     *)
(* fewer than 2 points, and the magnitude is then 0.                       *)
C13_NeutralIffShort ==
    /\ analysis.op = "analyze_weight_trend" =>
          /\ (analysis.result.trend = "neutral") <=> (Len(series_in.weight) < 2)
          /\ analysis.result.trend = "neutral" => analysis.result.num = 0
    /\ analysis.op = "analyze_blood_pressure_trend" =>
          /\ (analysis.result.trend = "neutral") <=> (Len(series_in.bp) < 2)
          /\ analysis.result.trend = "neutral" => analysis.result.num = 0

\* The weight trend of the claim: the change of the mean in percent of the
\* earliest mean p / k, compared with 1 and -1.
WeightTrendOf(values) ==
    LET c == WindowChange(values)
        p == Sum(Head3(values, 3))
    IN  IF 100 * c > p THEN "increasing"
        ELSE IF 100 * c < 0 - p THEN "decreasing"
        ELSE "stable"

(* C14: for every weight series of at least 2 points whose earliest mean   *)
(* is not zero, the trend is increasing if the change of the mean is more  *)
(* than 1 percent, decreasing if it is less than -1 percent and stable     *)
(* otherwise; 70,70,70,77,77,77 gives a change of 10 percent, increasing.  *)
C14_WeightTrend ==
    (/\ analysis.op = "analyze_weight_trend"
     /\ Len(series_in.weight) >= 2
     /\ Sum(Head3(ValuesInOrder(series_in.weight), 3)) > 0)
    => LET values == ValuesInOrder(series_in.weight)
       IN  /\ analysis.result.raised = "None"
           /\ analysis.result.trend = WeightTrendOf(values)
           /\ values = <<70, 70, 70, 77, 77, 77>> =>
                 /\ analysis.result.trend = "increasing"
                 /\ analysis.result.num = 10 * analysis.result.den

\* The blood-pressure trend of the claim, on the exact changes sc / k and
\* dc / k of the two means.
BpTrendOf(sc, dc, k) ==
    IF Abs(sc) > 10 * k \/ Abs(dc) > 10 * k THEN "concerning"
    ELSE IF Abs(sc) > 5 * k \/ Abs(dc) > 5 * k THEN "notable"
    ELSE "stable"

(* C15: for every blood-pressure series of at least 2 points the trend is  *)
(* concerning if either absolute change of the means is more than 10,      *)
(* else notable if either is more than 5, else stable, and the magnitude   *)
(* is the larger absolute change; systolic 120,120,120,140,140,140 with    *)
(* diastolic 80 gives a systolic change of 20, concerning.                 *)
C15_BpTrend ==
    (analysis.op = "analyze_blood_pressure_trend" /\ Len(series_in.bp) >= 2)
    => LET values == ValuesInOrder(series_in.bp)
           sc == WindowChange([i \in 1..Len(values) |-> values[i].systolic])
           dc == WindowChange([i \in 1..Len(values) |-> values[i].diastolic])
           k == WindowSize(values)
       IN  /\ analysis.result.trend = BpTrendOf(sc, dc, k)
           /\ analysis.result.num * k = Max2(Abs(sc), Abs(dc)) * analysis.result.den
           /\ (sc = 20 * k /\ dc = 0) => analysis.result.trend = "concerning"

\* The series of a metric family among the given ones.
SeriesOfFamily ==
    [weight |-> series_in.weight, blood_pressure |-> series_in.bp,
     heart_rate |-> series_in.hr, sleep |-> series_in.sleep]

(* C16: the summary built by generate_health_summary holds a family's key  *)
(* if and only if that family's series is not empty, and the call does not *)
(* fail because a series is empty.                                         *)
C16_FamilyKeys ==
    analysis.op = "generate_health_summary" =>
        /\ (\E f \in DOMAIN SeriesOfFamily : SeriesOfFamily[f] = <<>>) =>
              analysis.result.raised = "None"
        /\ \A f \in DOMAIN SeriesOfFamily :
              (f \in analysis.result.families) <=> (SeriesOfFamily[f] # <<>>)

-----------------------------------------------------------------------------
(* HealthSync.generate_health_summary: the claims.                         *)

(* C17: a call of HealthSync.generate_health_summary made less than 3600   *)
(* seconds after the call that built the cached summary returns that       *)
(* summary and invokes no source fetch; any other call builds a new        *)
(* summary and caches it.                                                  *)
C17_SummaryCache ==
    summary_call.done =>
        LET before == summary_call.before
            fresh == /\ before.some
                     /\ summary_call.at - before.val.timestamp.at < 3600
        IN  /\ summary_call.raised = "None"
            /\ fresh => /\ summary_call.hit
                        /\ summary_call.fetches = {}
                        /\ cached_summary = before
            /\ ~fresh => /\ ~summary_call.hit
                         /\ cached_summary.some
                         /\ cached_summary.val.timestamp.at = summary_call.at

-----------------------------------------------------------------------------
(* HealthSync: the sync statuses.                                          *)

(* C18: a source's status is unknown at first; every fetch attempt for the *)
(* source sets it to the outcome of that attempt, success or error, and    *)
(* no step sets it back to unknown.                                        *)
C18_StatusFollowsFetch ==
    /\ cycles = 0 => \A s \in SourceIds : last_sync_status[s] = NoStatus
    /\ [][\A s \in SourceIds :
             /\ (SafeSyncOf(s) /\ fetched'[s] = "fetched") =>
                    last_sync_status'[s].status = "success"
             /\ (SafeSyncOf(s) /\ fetched'[s] = "failed") =>
                    last_sync_status'[s].status = "error"
             /\ last_sync_status[s] # NoStatus =>
                    last_sync_status'[s] # NoStatus]_vars

-----------------------------------------------------------------------------
(* The limiters of the handlers: the claims.                               *)

\* This step is a rate-limited request of the source.
RequestOf(s) ==
    /\ lim_last'.source = s
    /\ source_calls'[s] = source_calls[s] + 1

(* C19: limiter state is per source: a request of one source adds no       *)
(* timestamp to the sequence that another source's requests consult, and   *)
(* a request waits only on account of the requests of its own source (at   *)
(* least calls_per_minute = 30 of them before it).                         *)
C19_PerSourceLimiter ==
    [][\A s \in SourceIds :
          RequestOf(s) =>
              /\ \A o \in SourceIds \ {s} :
                    limiter_calls'[LimiterOf[o]] = limiter_calls[LimiterOf[o]]
              /\ lim_last'.waited > 0 => source_calls[s] >= HandlerLimit]_vars

-----------------------------------------------------------------------------
(* CacheManager: the cache keys.                                           *)

\* Two descriptors have the same fields with the same values.
SameFields(a, b) ==
    /\ \A i \in 1..Len(a) : \E j \in 1..Len(b) : a[i] = b[j]
    /\ \A j \in 1..Len(b) : \E i \in 1..Len(a) : b[j] = a[i]

\* What get_cached_data returns for a descriptor, before and after a step.
Lookup(desc) ==
    GetCachedData(redis_client, redis_store, local_cache, desc, cache_clock)

LookupAfter(desc) ==
    GetCachedData(redis_client', redis_store', local_cache', desc, cache_clock')

(* C20: two descriptors map to the same cache entry if and only if they    *)
(* have the same fields with the same values, in whatever order; a write   *)
(* for one (source, date) that returns is seen by a lookup through any     *)
(* descriptor with the same fields, and changes the result of no lookup    *)
(* for another source or another date.                                     *)
C20_KeyPerDescriptor ==
    /\ \A a, b \in AllDescriptors :
          (GenerateKey(a) = GenerateKey(b)) <=> SameFields(a, b)
    /\ [][cache_last'.op = "cache_data" /\ cache_calls' = cache_calls + 1 =>
          \A d \in AllDescriptors :
              /\ (GenerateKey(d) = GenerateKey(cache_last'.desc))
                     <=> SameFields(d, cache_last'.desc)
              /\ (SameFields(d, cache_last'.desc) /\ cache_last'.raised = "None")
                     => LookupAfter(d).some /\ LookupAfter(d).val = cache_last'.value
              /\ ~SameFields(d, cache_last'.desc)
                     => LookupAfter(d) = Lookup(d)]_vars

\* A value written through the descriptor with its fields in one order has
\* been read through the descriptor with its fields in the other order.
C20_Witness ==
    /\ cache_last.op = "get_cached_data"
    /\ cache_last.desc = Descriptor("omron_bp", 1)
    /\ cache_written.written
    /\ cache_written.raised = "None"
    /\ cache_written.value # <<>>
    /\ cache_written.key = GenerateKey(DescriptorReversed("omron_bp", 1))
    /\ local_cache[GenerateKey(Descriptor("withings_weight", 1))].some
    /\ cache_last.ret.some
    /\ cache_last.ret.val = cache_written.value

-----------------------------------------------------------------------------
(* RateLimiter: the pace of consecutive acquisitions.                      *)

(* C22: in any sequence of acquisitions on one limiter no wait is          *)
(* negative, and between the first and the last of any                     *)
(* 2 * calls_per_minute + 1 consecutive acquisitions (61 of them for 30    *)
(* calls per minute) at least 60 seconds pass.                             *)
C22_ConsecutiveSpan ==
    \A i \in 1..Len(issued) :
        /\ waited[i] >= 0
        /\ i + 2 * calls_per_minute <= Len(issued) =>
               issued[i + 2 * calls_per_minute] - issued[i] >= Window

\* 2 * limit + 1 acquisitions without delay: the (limit+1)-th has waited,
\* and the last is issued 60 seconds after the first.
C22_Witness ==
    /\ calls_per_minute = 2
    /\ Len(issued) = 2 * calls_per_minute + 1
    /\ waited[calls_per_minute + 1] > 0
    /\ issued[Len(issued)] - issued[1] = Window

(* C24: an acquisition suspends only when, of the timestamps not older     *)
(* than 60 seconds, at least calls_per_minute remain; it then suspends     *)
(* for 60 - (now - oldest remaining timestamp) seconds, between 1 and 60,  *)
(* and records the call after the suspension; otherwise it records the     *)
(* call at once without waiting; it returns within 60 seconds.             *)
C24_AcquisitionRule ==
    [][Len(issued') = Len(issued) + 1 =>
          LET now == clock
              remaining == Prune(calls, now)
              wait == Last(waited')
          IN  /\ wait > 0 => Len(remaining) >= calls_per_minute
              /\ Len(remaining) >= calls_per_minute =>
                     /\ wait * TicksPerSecond = Window - (now - remaining[1])
                     /\ wait \in 1..WindowSeconds
                     /\ Last(calls') = now + wait * TicksPerSecond
              /\ Len(remaining) < calls_per_minute =>
                     /\ wait = 0
                     /\ Last(calls') = now
              /\ clock' - clock <= Window]_vars

-----------------------------------------------------------------------------
(* The fetch of a source: the claims.                                      *)

IsRequest(e) == e.ev \in {"request_failed", "malformed", "response"}

Requests(log) == SelectSeq(log, IsRequest)

Acquisitions(log) == SelectSeq(log, LAMBDA e : e.ev = "acquire")

\* The sleeps of the retry wrappers, in order.
Backoffs(log) ==
    LET b == SelectSeq(log, LAMBDA e : e.ev = "backoff")
    IN  [i \in 1..Len(b) |-> b[i].n]

\* A _safe_sync call that went to the source has just returned.
JustFetched(s) ==
    /\ fetch_pc.kind = "idle"
    /\ fetch_pc.step > 1
    /\ SyncOrder[fetch_pc.step - 1] = s
    /\ fetch_log # <<>>

(* C21: a malformed raw reading in a source's response is not retried and  *)
(* drops only that record: the request is not made again because of it,    *)
(* and _safe_sync returns the well-formed readings of the same response.   *)
C21_MalformedDropped ==
    [][(Len(fetch_log') > Len(fetch_log) /\ Last(fetch_log').ev = "malformed") =>
          /\ fetch_pc'.kind = "idle"
          /\ series'[SyncOrder[fetch_pc.step]] =
                 WellFormed(MalformedResponse(SyncOrder[fetch_pc.step]))]_vars

(* C23: on a cache miss, when every network request of the source fails,   *)
(* one _safe_sync call makes exactly 3 requests, with backoff sleeps of 1  *)
(* and 2 seconds between them, and then records the status error; this for *)
(* each of the four sources.                                               *)
C23_ThreeAttempts ==
    \A s \in SourceIds :
        (JustFetched(s) /\ \A i \in 1..Len(fetch_log) :
                              IsRequest(fetch_log[i]) =>
                                  fetch_log[i].ev = "request_failed")
        => /\ Len(Requests(fetch_log)) = HandlerRetries
           /\ Backoffs(fetch_log) = <<1, 2>>
           /\ last_sync_status[s].status = "error"

\* Every request of the log comes right after an acquisition, and every
\* acquisition after a backoff ends the backoff's sleep plus its own wait
\* after the failed request.
AcquiresInsideAttempts(log) ==
    /\ Len(Acquisitions(log)) = Len(Requests(log))
    /\ \A i \in 1..Len(log) :
          /\ IsRequest(log[i]) => i > 1 /\ log[i - 1].ev = "acquire"
          /\ (log[i].ev = "backoff" /\ i < Len(log)) =>
                 /\ log[i + 1].ev = "acquire"
                 /\ IsRequest(log[i - 1])
                 /\ log[i + 1].at - log[i - 1].at =
                        (log[i].n + log[i + 1].n) * TicksPerSecond

(* C25: the acquisition happens inside each attempt of the retry wrapper   *)
(* of a rate-limited function: every attempt performs one acquisition and  *)
(* records one timestamp, so n attempts make n acquisitions, and the       *)
(* limiter's wait of an attempt follows the backoff sleep of the failed    *)
(* attempt before it, the two adding up.                                   *)
C25_AcquireInEachAttempt ==
    [][/\ AcquiresInsideAttempts(fetch_log')
       /\ (fetch_pc.kind = "attempt" /\ fetch_log' # fetch_log) =>
              LET l == LimiterOf[SyncOrder[fetch_pc.step]]
              IN  /\ Len(limiter_calls'[l]) =
                         Len(Prune(limiter_calls[l], lim_clock)) + 1
                  /\ Last(limiter_calls'[l]) = lim_clock
                  /\ Len(Acquisitions(fetch_log')) =
                         Len(Acquisitions(fetch_log)) + 1]_vars

\* A second attempt that waited for the limiter after the backoff of the
\* first: 1 second of backoff, then 59 seconds of wait.
C25_Witness ==
    \E i \in 1..Len(fetch_log) :
        /\ i < Len(fetch_log)
        /\ fetch_log[i].ev = "backoff"
        /\ fetch_log[i].n = 1
        /\ fetch_log[i + 1].ev = "acquire"
        /\ fetch_log[i + 1].n = WindowSeconds - 1
        /\ fetch_log[i + 1].at - fetch_log[i - 1].at = Window

(* C28: while the fetch of one source sleeps in a retry backoff, the       *)
(* fetch of the next source of the cycle can begin.                        *)
C28_OthersProgress ==
    (fetch_pc.kind = "backoff" /\ fetch_pc.step < Len(SyncOrder)) =>
        ENABLED BeginSafeSyncOf(SyncOrder[fetch_pc.step + 1])

-----------------------------------------------------------------------------
(* Two threads in one limiter: the claims.                                 *)

(* C26: when two threads call the same rate-limited function at once, the  *)
(* timestamp of every call is in the limiter's sequence once both          *)
(* acquisitions have returned, and in no 60-second window more than        *)
(* calls_per_minute calls are issued.                                      *)
C26_NoLostUpdate ==
    /\ (\A t \in Threads : threads[t].pc = "returned") =>
           \A t \in Threads :
               Cardinality({i \in 1..Len(calls) : calls[i] = threads[t].now})
                   >= Cardinality({u \in Threads : threads[u].now = threads[t].now})
    /\ \A i \in 1..Len(issued) : IssuedInWindow(issued[i]) <= calls_per_minute


\* C27: at most one call of sync_health_data is in progress at any time: a
\* call begins only when no call is running or backing off, also when the
\* scheduled job came due during the running call.
C27_OneCycleAtATime ==
    [][cycles' # cycles => cycle.kind \notin {"running", "backoff"}]_vars

\* The job came due during the first call, which its wrapper is retrying.
C27_Witness == job_due /\ cycle.kind = "backoff" /\ cycles = 1

\* C29: when a run of the body ends, every source whose status is an error
\* has been warned of by _check_sync_health in that run, and no entry of
\* active_alerts names a source.
C29_SyncErrorsWarned ==
    BodyEnded =>
        /\ CheckSyncHealth(last_sync_status) \subseteq sync_warnings
        /\ \A i \in 1..Len(active_alerts) :
               active_alerts[i].rule \notin SourceIds

\* C30: last_sync_status always has exactly the four keys; a _safe_sync
\* call changes no entry but that of its source, and none when the cache
\* served it.
C30_StatusFrame ==
    /\ [](DOMAIN last_sync_status = SourceIds)
    /\ [][\A s \in SourceIds :
              last_sync_status'[s] # last_sync_status[s] =>
                  /\ cycle.kind = "running"
                  /\ cycle.step \in 1..Len(SyncOrder)
                  /\ s = SyncOrder[cycle.step]
                  /\ fetched'[s] # "hit"]_vars

\* One source was served from the cache after another's status changed to
\* an error in the same run.
C30_Witness ==
    \E s, t \in SourceIds :
        /\ fetched[s] = "hit"
        /\ fetched[t] = "failed"
        /\ last_sync_status[s].status = "success"
        /\ last_sync_status[t].status = "error"

(* C36: for every retries >= 0 the wrapper of retry_on_exception, when it   *)
(* is over, has invoked the operation at least once and at most            *)
(* max(retries, 1) times, and an exception it raised is one that an        *)
(* invocation raised.                                                      *)
C36_InvokedAtLeastOnce ==
    outcome.kind # "running" =>
        /\ Len(invocations) >= 1
        /\ Len(invocations) <= (IF retries >= 1 THEN retries ELSE 1)
        /\ outcome.kind = "raised" =>
               \E i \in 1..Len(invocations) :
                   invocations[i] = [ok |-> FALSE, what |-> outcome.what]

(* C35: for a weight series of exactly 2 or exactly 3 points the analyzer   *)
(* returns the trend stable with a change of 0, whatever the values, and a *)
(* trend that is increasing or decreasing comes of 4 points or more.       *)
C35_ShortSeriesStable ==
    analysis.op = "analyze_weight_trend" =>
        /\ Len(series_in.weight) \in {2, 3} =>
               /\ analysis.result.raised = "None"
               /\ analysis.result.trend = "stable"
               /\ analysis.result.num = 0
        /\ analysis.result.trend \in {"increasing", "decreasing"} =>
               Len(series_in.weight) >= 4

(* C32: a source whose fetch returned in this run has the status success   *)
(* after its _safe_sync call, whatever the cache did around the fetch: the  *)
(* status error is recorded only when the fetch itself failed.              *)
C32_FetchedIsSuccess ==
    \A s \in SourceIds :
        fetched[s] = "fetched" => last_sync_status[s].status = "success"

\* Every series of this run was served from the cache: the run has the
\* series of the run before it.
SameSeriesAgain == \A s \in SourceIds : fetched[s] = "hit"

(* C33: alerts whose delivery raised are not lost: when the call of         *)
(* sync_health_data is over whose runs had a heart-rate series that calls   *)
(* for an alert, with a channel that delivers (Google Home) and one whose   *)
(* delivery raises (the bot), the run that repeated the series of the run   *)
(* before it has attempted the notification again.                          *)
C33_NotifiedAgain ==
    (/\ cycle.kind = "raised"
     /\ cycles = 1
     /\ SameSeriesAgain
     /\ HighHeartRate
     /\ google_home
     /\ bot)
    => Len(SelectSeq(notified, LAMBDA n : n.alert.rule = "heart_rate_max")) >= 2

(* C31: after a call of sync_health_data that returned normally,           *)
(* active_alerts is the alert list derived of the summary of that call, and *)
(* active_alerts changes in one step, from the previous list to the derived *)
(* one.  No call returns normally (C5) and active_alerts never changes:     *)
(* the formula holds of no case at all.                                     *)
C31_AlertsAreDerived ==
    /\ [](cycle.kind = "returned" =>
             derived.derived /\ active_alerts = derived.alerts)
    /\ [][active_alerts' # active_alerts =>
             derived'.derived /\ active_alerts' = derived'.alerts]_vars

\* The case of C31: a call has returned normally.
C31_Case == cycle.kind = "returned"

(* C34: no reading is handed to calendar.create_health_event twice.  No    *)
(* reading is ever handed to it, and no second call of sync_health_data    *)
(* begins: the formula holds of no case at all.                            *)
C34_PublishedOnce ==
    \A i, j \in 1..Len(published) : published[i] = published[j] => i = j

\* The case of C34: a second call, or a reading handed to the calendar.
C34_Case == cycles > 1 \/ published # <<>>

====
